---- MODULE Spec2Model ----
(***************************************************************************)
(* Threshold secret-sharing engine of veil-sdk (packages/crypto):          *)
(* Shamir's Secret Sharing over a prime field, share verification, the    *)
(* threshold cipher, and their callers:                                    *)
(*     Spec        split -> combine                                        *)
(*     SpecVerify  split -> [tamper] -> verify                             *)
(*     SpecShares  verify / combine / decrypt on hand-made share lists     *)
(*     SpecCipher  createThresholdEncryption -> decryptWithThreshold       *)
(*     SpecEngine  two callers making calls concurrently                   *)
(*                                                                         *)
(* The code works on 32-byte strings and a 256-bit prime with BigInt       *)
(* arithmetic.  TLC has 32-bit integers and enumerates its inputs, so the  *)
(* field is scaled down and every width of the code is kept as a named     *)
(* constant with the same relations as in the code:                        *)
(*     PRIME is prime,                                                     *)
(*     BYTE_RADIX^FIELD_BYTES / 2 < PRIME < BYTE_RADIX^FIELD_BYTES         *)
(*         (some byte strings of full width are >= PRIME, none >= 2*PRIME),*)
(*     MAX_SHARES < PRIME  (share indices are distinct non-zero residues). *)
(* All arithmetic below is the code's arithmetic, on those constants.      *)
(***************************************************************************)
EXTENDS Integers, Sequences, FiniteSets, TLC

\* payload.ts:219  PRIME = 2^256 - 2^32 - 977; here the 3-"byte" prime 7.
PRIME == 7
\* One byte holds BYTE_RADIX values (payload.ts:318 "<< 8", :330 "& 0xff": 256).
BYTE_RADIX == 2
\* Width of a secret, of a random draw and of a share value (payload.ts:247,
\* :327, :349: 32).
FIELD_BYTES == 3
\* payload.ts:358  "totalShares > 255".
MAX_SHARES == 5
\* payload.ts:352  "threshold < 2".
MIN_THRESHOLD == 2
\* payload.ts:385  "shares.length < 2".
MIN_COMBINE == 2

\* Largest threshold the caller passes to a split that can succeed, and to
\* verifyShares.
MaxThreshold == 3

VARIABLES
    pc,            \* position of the caller: "init", "split", "tampered",
                   \* "held", "created", "done"
    secret,        \* argument secret of splitSecret or of
                   \* createThresholdEncryption: a byte string
    threshold,     \* argument of splitSecret
    totalShares,   \* argument of splitSecret
    splitErr,      \* error thrown by splitSecret, "none" when it returned
    shares,        \* value returned by splitSecret
    coefficients,  \* local of splitSecret: the polynomial of the last split
    evalPoints,    \* the x values evaluatePolynomial was called with
    held,          \* the share list the caller passes on
    tamperedAt,    \* position (1-based) of the altered share in held, or 0
    op,            \* the last engine call after the split
    expected,      \* expectedThreshold argument of verifyShares
    combineErr,    \* error thrown by combineShares, "none" when it returned
    combined,      \* value returned by combineShares
    verdict,       \* value returned by verifyShares
    combineCalls,  \* combineShares calls made by the last verifyShares
    raised,        \* error verifyShares let escape to its caller, or "none"
    encryptionKey, \* local of createThresholdEncryption: the drawn key
    created,       \* value returned by createThresholdEncryption, <<>> if none
    ciphertext,    \* argument encryptedSecret of decryptWithThreshold
    decrypted,     \* value returned by decryptWithThreshold
    decryptErr,    \* error thrown by decryptWithThreshold, "none" if it returned
    effects,       \* what the last engine call did, in the order of the code
    tasks,         \* concurrent callers: the call each is in, and its result
    frames,        \* the locals of the calls in progress
    rngPos,        \* state of the random source shared by all calls
    moduleScope,   \* the module-level bindings of the engine
    heap,          \* the byte arrays and share lists the callers pass in
    fieldCall,     \* the field function applied on its own, and its arguments
    fieldResult,   \* the value that function returned
    request,       \* the HTTP request a threshold route received
    response,      \* the HTTP response the route sent
    serviceCall,   \* the call of thresholdService the route made
    instances,     \* the rows of the table instances
    nextId,        \* the next AUTOINCREMENT id of the table
    provRequest,   \* the provisioning request handled last
    provResponse   \* the answer to that request

\* The variables of the threshold cipher.
cipherVars == <<encryptionKey, created, ciphertext, decrypted, decryptErr>>

\* The variables of the concurrent callers.
engineVars == <<tasks, frames, rngPos, moduleScope, heap>>

\* The variables of the single caller.
callerVars == <<pc, secret, threshold, totalShares, splitErr, shares,
                coefficients, evalPoints, held, tamperedAt, op, expected,
                combineErr, combined, verdict, combineCalls, raised,
                encryptionKey, created, ciphertext, decrypted, decryptErr,
                effects>>

\* The variables of a field function applied on its own.
fieldVars == <<fieldCall, fieldResult>>

\* The REST add-on: one request, its response, the service call made
restVars == <<request, response, serviceCall>>

\* The REST add-on: the instance table and the provisioning request handled last
provVars == <<instances, nextId, provRequest, provResponse>>

vars == <<pc, secret, threshold, totalShares, splitErr, shares, coefficients,
          evalPoints, held, tamperedAt, op, expected, combineErr, combined,
          verdict, combineCalls, raised, encryptionKey, created, ciphertext,
          decrypted, decryptErr, effects, tasks, frames, rngPos, moduleScope,
          heap,
          fieldCall, fieldResult,
          request, response, serviceCall,
          instances, nextId, provRequest, provResponse>>

--------------------------------------------------------------------------
\* Values

Byte == 0 .. (BYTE_RADIX - 1)

ByteStrings(n) == [1 .. n -> Byte]

\* BigInt "/" truncates toward zero.
JsDiv(a, b) ==
    IF (a >= 0) = (b > 0)
    THEN (IF a >= 0 THEN a ELSE -a) \div (IF b > 0 THEN b ELSE -b)
    ELSE -((IF a >= 0 THEN a ELSE -a) \div (IF b > 0 THEN b ELSE -b))

\* BigInt "%" takes the sign of the dividend (m > 0 at every use).
JsRem(a, m) == IF a >= 0 THEN a % m ELSE -((-a) % m)

RECURSIVE Pow(_, _)
Pow(b, e) == IF e = 0 THEN 1 ELSE b * Pow(b, e - 1)

\* Array.prototype.slice(start, end): negative arguments count from the end.
SliceIdx(len, k) == IF k < 0 THEN (IF len + k < 0 THEN 0 ELSE len + k)
                    ELSE (IF k > len THEN len ELSE k)

Slice(s, start, end) ==
    LET a == SliceIdx(Len(s), start)
        b == SliceIdx(Len(s), end)
    IN  IF b <= a THEN <<>> ELSE [i \in 1 .. (b - a) |-> s[a + i]]

--------------------------------------------------------------------------
\* Byte strings and big integers

RECURSIVE BytesLoop(_, _, _)
BytesLoop(bytes, k, result) ==
    IF k > Len(bytes) THEN result
    ELSE BytesLoop(bytes, k + 1, result * BYTE_RADIX + bytes[k])

bytesToBigInt(bytes) == BytesLoop(bytes, 1, 0)

\* bytes[i] = temp & 0xff; temp >>= 8, for i = 31 .. 0 (two's complement, so
\* floor division and a non-negative remainder).
bigIntToBytes(value) ==
    [i \in 1 .. FIELD_BYTES |->
        (value \div Pow(BYTE_RADIX, FIELD_BYTES - i)) % BYTE_RADIX]

--------------------------------------------------------------------------
\* Polynomial engine

\* Mutant: only the first byte of each draw is used.
generateCoefficients_FirstByteOnly(secretBigInt, degree, randomBytes) ==
    [i \in 1 .. (IF degree >= 1 THEN degree + 1 ELSE 1) |->
        IF i = 1 THEN secretBigInt
        ELSE JsRem(randomBytes[i - 1][1], PRIME)]

\* randomBytes[i] is the 32-byte draw of crypto.getRandomValues in iteration i.
generateCoefficients(secretBigInt, degree, randomBytes) ==
    [i \in 1 .. (IF degree >= 1 THEN degree + 1 ELSE 1) |->
        IF i = 1 THEN secretBigInt
        ELSE JsRem(bytesToBigInt(randomBytes[i - 1]), PRIME)]

RECURSIVE EvalLoop(_, _, _, _, _)
EvalLoop(coefs, x, k, result, xPower) ==
    IF k > Len(coefs) THEN result
    ELSE EvalLoop(coefs, x, k + 1,
                  JsRem(result + coefs[k] * xPower, PRIME),
                  JsRem(xPower * x, PRIME))

\* Mutant: the running power starts at x.
evaluatePolynomial_PowerFromX(coefs, x) == EvalLoop(coefs, x, 1, 0, x)

evaluatePolynomial(coefs, x) == EvalLoop(coefs, x, 1, 0, 1)

--------------------------------------------------------------------------
\* Field inverse and Lagrange interpolation at x = 0

RECURSIVE EuclidLoop(_, _, _, _)
EuclidLoop(old_r, r, old_s, s) ==
    IF r = 0 THEN old_s
    ELSE LET quotient == JsDiv(old_r, r)
         IN  EuclidLoop(r, old_r - quotient * r, s, old_s - quotient * s)

\* Mutant: an operand congruent to 0 is reported with -1.
modInverse_ReportsZero(a, m) ==
    IF JsRem(a, m) = 0 THEN -1
    ELSE JsRem(JsRem(EuclidLoop(a, m, 1, 0), m) + m, m)

\* Mutant: the loop starts from the modulus and the operand swapped.
modInverse_Swapped(a, m) == JsRem(JsRem(EuclidLoop(m, a, 1, 0), m) + m, m)

\* Mutant: the possibly negative coefficient is not normalised.
modInverse_NoNormalise(a, m) == JsRem(EuclidLoop(a, m, 1, 0), m)

modInverse(a, m) == JsRem(JsRem(EuclidLoop(a, m, 1, 0), m) + m, m)

\* Mutant: the sum weighs each share by its position in the list.
RECURSIVE LagrangeLoop_ByPosition(_, _, _)
LagrangeLoop_ByPosition(points, i, acc) ==
    IF i > Len(points) THEN acc
    ELSE LagrangeLoop_ByPosition(points, i + 1,
            JsRem(acc + i * points[i].y, PRIME))

\* Mutant: the numerator multiplies by x_j, not by 0 - x_j.
RECURSIVE NumeratorLoop_NoNegation(_, _, _, _)
NumeratorLoop_NoNegation(points, i, j, numerator) ==
    IF j > Len(points) THEN numerator
    ELSE NumeratorLoop_NoNegation(points, i, j + 1,
            IF i # j THEN JsRem(numerator * points[j].x, PRIME)
            ELSE numerator)

RECURSIVE NumeratorLoop(_, _, _, _)
NumeratorLoop(points, i, j, numerator) ==
    IF j > Len(points) THEN numerator
    ELSE NumeratorLoop(points, i, j + 1,
            IF i # j THEN JsRem(numerator * (PRIME - points[j].x), PRIME)
            ELSE numerator)

RECURSIVE DenominatorLoop(_, _, _, _)
DenominatorLoop(points, i, j, denominator) ==
    IF j > Len(points) THEN denominator
    ELSE DenominatorLoop(points, i, j + 1,
            IF i # j
            THEN JsRem(denominator *
                       JsRem(points[i].x - points[j].x + PRIME, PRIME), PRIME)
            ELSE denominator)

lagrangeCoef(points, i) ==
    JsRem(NumeratorLoop(points, i, 1, 1) *
          modInverse(DenominatorLoop(points, i, 1, 1), PRIME), PRIME)

RECURSIVE LagrangeLoop(_, _, _)
LagrangeLoop(points, i, acc) ==
    IF i > Len(points) THEN acc
    ELSE LagrangeLoop(points, i + 1,
                      JsRem(acc + points[i].y * lagrangeCoef(points, i), PRIME))

lagrangeInterpolate(points) == LagrangeLoop(points, 1, 0)

--------------------------------------------------------------------------
\* Share splitter

\* Mutant: the share-count limit is checked before the threshold relation.
splitSecretValidate_LimitFirst(sec, thr, total) ==
    IF Len(sec) # FIELD_BYTES THEN "InvalidSecretLength"
    ELSE IF thr < MIN_THRESHOLD THEN "ThresholdTooLow"
    ELSE IF total > MAX_SHARES THEN "TooManyShares"
    ELSE IF total < thr THEN "InsufficientShares"
    ELSE "none"

\* The four checks of splitSecret, in the order of the code.
splitSecretValidate(sec, thr, total) ==
    IF Len(sec) # FIELD_BYTES THEN "InvalidSecretLength"
    ELSE IF thr < MIN_THRESHOLD THEN "ThresholdTooLow"
    ELSE IF total < thr THEN "InsufficientShares"
    ELSE IF total > MAX_SHARES THEN "TooManyShares"
    ELSE "none"

\* Mutant: the share loop starts at 0.
splitPoints_FromZero(total) == [k \in 1 .. total |-> k - 1]

\* for (let i = 1; i <= totalShares; i++): the x values of the share loop.
splitPoints(total) == [k \in 1 .. total |-> k]

\* The body of splitSecret after validation.
splitSecretShares(coefs, total) ==
    LET xs == splitPoints(total)
    IN  [k \in 1 .. Len(xs) |->
            [index |-> xs[k],
             value |-> bigIntToBytes(evaluatePolynomial(coefs, xs[k]))]]

\* The draws of crypto.getRandomValues a split with this threshold makes.
RandomDraws(thr) == [1 .. (thr - 1) -> ByteStrings(FIELD_BYTES)]

--------------------------------------------------------------------------
\* Share combiner and verifier

\* Mutant: a single share is accepted.
combineSharesValidate_AtLeastOne(shs) ==
    IF Len(shs) < 1 THEN "InsufficientShares" ELSE "none"

\* Mutant: two shares are rejected.
combineSharesValidate_MoreThanTwo(shs) ==
    IF Len(shs) <= MIN_COMBINE THEN "InsufficientShares" ELSE "none"

combineSharesValidate(shs) ==
    IF Len(shs) < MIN_COMBINE THEN "InsufficientShares" ELSE "none"

sharePoints(shs) ==
    [k \in 1 .. Len(shs) |->
        [x |-> shs[k].index, y |-> bytesToBigInt(shs[k].value)]]

\* combineShares: [err, value]; value is <<>> when it throws.
combineShares(shs) ==
    IF combineSharesValidate(shs) # "none"
    THEN [err |-> combineSharesValidate(shs), value |-> <<>>]
    ELSE [err |-> "none",
          value |-> bigIntToBytes(lagrangeInterpolate(sharePoints(shs)))]

\* Mutant: only the first byte of the two results is compared.
everyByteEqual_FirstByteOnly(result1, result2) ==
    Len(result1) >= 1 /\ Len(result2) >= 1 /\ result1[1] = result2[1]

\* result1.every((byte, i) => byte === result2[i])
everyByteEqual(result1, result2) ==
    \A i \in 1 .. Len(result1) : i <= Len(result2) /\ result1[i] = result2[i]

\* Mutant: the second reconstruction takes the last shares of the list.
verifySharesTry_LastShares(shs, expectedThreshold) ==
    LET subset1 == Slice(shs, 0, expectedThreshold)
        result1 == combineShares(subset1)
    IN  IF result1.err # "none"
        THEN [ok |-> FALSE, calls |-> 1, thrown |-> result1.err]
        ELSE IF Len(shs) > expectedThreshold
        THEN LET subset2 == Slice(shs, Len(shs) - expectedThreshold, Len(shs))
                 result2 == combineShares(subset2)
             IN  IF result2.err # "none"
                 THEN [ok |-> FALSE, calls |-> 2, thrown |-> result2.err]
                 ELSE [ok |-> everyByteEqual(result1.value, result2.value),
                       calls |-> 2, thrown |-> "none"]
        ELSE [ok |-> TRUE, calls |-> 1, thrown |-> "none"]

\* Mutant: the second reconstruction takes the first shares again.
verifySharesTry_SameSubset(shs, expectedThreshold) ==
    LET subset1 == Slice(shs, 0, expectedThreshold)
        result1 == combineShares(subset1)
    IN  IF result1.err # "none"
        THEN [ok |-> FALSE, calls |-> 1, thrown |-> result1.err]
        ELSE IF Len(shs) > expectedThreshold
        THEN LET subset2 == Slice(shs, 0, expectedThreshold)
                 result2 == combineShares(subset2)
             IN  IF result2.err # "none"
                 THEN [ok |-> FALSE, calls |-> 2, thrown |-> result2.err]
                 ELSE [ok |-> everyByteEqual(result1.value, result2.value),
                       calls |-> 2, thrown |-> "none"]
        ELSE [ok |-> TRUE, calls |-> 1, thrown |-> "none"]

\* Mutant: the second reconstruction is also made for a list of exactly
\* expectedThreshold shares.
verifySharesTry_AlwaysSecond(shs, expectedThreshold) ==
    LET subset1 == Slice(shs, 0, expectedThreshold)
        result1 == combineShares(subset1)
    IN  IF result1.err # "none"
        THEN [ok |-> FALSE, calls |-> 1, thrown |-> result1.err]
        ELSE IF Len(shs) >= expectedThreshold
        THEN LET subset2 == Slice(shs, 1, expectedThreshold + 1)
                 result2 == combineShares(subset2)
             IN  IF result2.err # "none"
                 THEN [ok |-> FALSE, calls |-> 2, thrown |-> result2.err]
                 ELSE [ok |-> everyByteEqual(result1.value, result2.value),
                       calls |-> 2, thrown |-> "none"]
        ELSE [ok |-> TRUE, calls |-> 1, thrown |-> "none"]

\* The try block of verifyShares: [ok, calls, thrown]; calls counts the
\* combineShares calls made, thrown is the error that left the block.
verifySharesTry(shs, expectedThreshold) ==
    LET subset1 == Slice(shs, 0, expectedThreshold)
        result1 == combineShares(subset1)
    IN  IF result1.err # "none"
        THEN [ok |-> FALSE, calls |-> 1, thrown |-> result1.err]
        ELSE IF Len(shs) > expectedThreshold
        THEN LET subset2 == Slice(shs, 1, expectedThreshold + 1)
                 result2 == combineShares(subset2)
             IN  IF result2.err # "none"
                 THEN [ok |-> FALSE, calls |-> 2, thrown |-> result2.err]
                 ELSE [ok |-> everyByteEqual(result1.value, result2.value),
                       calls |-> 2, thrown |-> "none"]
        ELSE [ok |-> TRUE, calls |-> 1, thrown |-> "none"]

\* Mutant: the error is passed on to the caller.
verifySharesCatch_Rethrows(r) ==
    [ok |-> r.ok, calls |-> r.calls, raised |-> r.thrown]

\* catch { return false; }
verifySharesCatch(r) ==
    [ok |-> IF r.thrown # "none" THEN FALSE ELSE r.ok,
     calls |-> r.calls, raised |-> "none"]

\* Mutant: the early return for a short list is missing.
verifyShares_NoLengthCheck(shs, expectedThreshold) ==
    verifySharesCatch(verifySharesTry(shs, expectedThreshold))

\* verifyShares: [ok, calls, raised].
verifyShares(shs, expectedThreshold) ==
    IF Len(shs) < expectedThreshold
    THEN [ok |-> FALSE, calls |-> 0, raised |-> "none"]
    ELSE verifySharesCatch(verifySharesTry(shs, expectedThreshold))

--------------------------------------------------------------------------
\* What a call does, in the order of its statements: "getRandomValues" (one
\* 32-byte draw), "field" (one step of arithmetic modulo PRIME: the reduction
\* of a drawn coefficient, one evaluatePolynomial, one lagrangeInterpolate),
\* "xor" (one byte of the cipher computed), "catch", and at the end "throw"
\* or "return".

RECURSIVE Repeat(_, _)
Repeat(s, n) == IF n <= 0 THEN <<>> ELSE s \o Repeat(s, n - 1)

Front(s) == SubSeq(s, 1, Len(s) - 1)

\* Mutant: the coefficients are generated before the arguments are checked.
splitSecretEffects_ValidateLate(sec, thr, total) ==
    Repeat(<<"getRandomValues", "field">>, thr - 1)
        \o (IF splitSecretValidate(sec, thr, total) # "none" THEN <<"throw">>
            ELSE Repeat(<<"field">>, total) \o <<"return">>)

splitSecretEffects(sec, thr, total) ==
    IF splitSecretValidate(sec, thr, total) # "none" THEN <<"throw">>
    ELSE Repeat(<<"getRandomValues", "field">>, thr - 1)
             \o Repeat(<<"field">>, total) \o <<"return">>

combineSharesEffects(shs) ==
    IF combineSharesValidate(shs) # "none" THEN <<"throw">>
    ELSE <<"field", "return">>

\* A combineShares call inside the try block of verifyShares.
TriedCombine(shs) ==
    IF combineSharesValidate(shs) # "none" THEN <<"throw", "catch">>
    ELSE <<"field">>

verifySharesEffects(shs, expectedThreshold) ==
    IF Len(shs) < expectedThreshold THEN <<"return">>
    ELSE LET first == TriedCombine(Slice(shs, 0, expectedThreshold))
         IN  IF combineSharesValidate(Slice(shs, 0, expectedThreshold)) # "none"
                \/ Len(shs) <= expectedThreshold
             THEN first \o <<"return">>
             ELSE first
                  \o TriedCombine(Slice(shs, 1, expectedThreshold + 1))
                  \o <<"return">>

--------------------------------------------------------------------------
\* Module scope, call frames, random source and caller-owned objects

Tasks == {1, 2}

\* const PRIME is the only module-level binding of the engine.
ModuleScope == [PRIME |-> PRIME]

\* Mutant: the locals of the call that ended are kept at module level.
AfterCall_KeepsLocals(scope, locals) ==
    [PRIME |-> scope.PRIME, lastLocals |-> locals]

\* The module scope when a call ends: no function assigns a module-level
\* binding, and its locals (const/let inside the function) are gone.
AfterCall(scope, locals) == scope

\* Mutant: every call uses the frame of task 1.
frameOf_Shared(t) == 1

\* The frame holding the locals of the call of task t: each call has its own.
frameOf(t) == t

\* The bytes crypto.getRandomValues hands out, draw after draw; the source
\* is shared by all calls.
RngStream == <<<<0, 0, 1>>, <<1, 1, 1>>, <<0, 1, 0>>>>

\* Objects of the callers: byte arrays and share lists, passed by reference.
InputObjects ==
    [secret      |-> <<1, 1, 0>>,
     shortSecret |-> <<1, 0>>,
     plain       |-> <<1, 0, 1, 1>>,
     cipher      |-> <<0, 1, 1, 0>>,
     shareList   |-> <<[index |-> 1, value |-> <<0, 1, 0>>],
                       [index |-> 2, value |-> <<1, 0, 1>>],
                       [index |-> 3, value |-> <<0, 0, 1>>]>>,
     shortList   |-> <<[index |-> 1, value |-> <<0, 1, 0>>]>>]

NoCall == [op |-> "none", bytes |-> "none", list |-> "none",
           threshold |-> 0, totalShares |-> 0]

NoResult == [err |-> "none", value |-> <<>>]

IdleTask == [phase |-> "idle", call |-> NoCall, took |-> <<>>,
             result |-> NoResult]

EngineAtRest ==
    /\ tasks = [t \in Tasks |-> IdleTask]
    /\ frames = [t \in Tasks |-> <<>>]
    /\ rngPos = 1
    /\ moduleScope = ModuleScope
    /\ heap = InputObjects

--------------------------------------------------------------------------
\* Field functions applied on their own

NoFieldCall == [fn |-> "none", a |-> 0, coefs |-> <<>>, x |-> 0]

FieldAtRest ==
    /\ fieldCall = NoFieldCall
    /\ fieldResult = 0

--------------------------------------------------------------------------
\* REST add-on: values of a JSON body, requests and responses

\* A value of a parsed JSON body by its typeof (Array.isArray for "array"):
\* n of a number, text of a string (its characters), items of an array.
JsUndefined == [type |-> "undefined", n |-> 0, text |-> <<>>, items |-> <<>>]

JsNumber(k) == [type |-> "number", n |-> k, text |-> <<>>, items |-> <<>>]

JsString(s) == [type |-> "string", n |-> 0, text |-> s, items |-> <<>>]

JsArray(a) == [type |-> "array", n |-> 0, text |-> <<>>, items |-> a]

\* !value: undefined, 0 and the empty string are falsy.
Falsy(value) ==
    \/ value.type = "undefined"
    \/ value.type = "number" /\ value.n = 0
    \/ value.type = "string" /\ value.text = <<>>

\* The digits of the text encoding of a byte string, one per byte value.
Base64Alphabet == [b \in Byte |-> IF b = 0 THEN "0" ELSE "1"]

\* Buffer.from(text, 'base64'): every digit of the alphabet yields its value
\* and every other character (white space) is skipped.
RECURSIVE Base64DecodeLoop(_, _, _)
Base64DecodeLoop(text, k, bytes) ==
    IF k > Len(text) THEN bytes
    ELSE Base64DecodeLoop(text, k + 1,
             IF \E b \in Byte : Base64Alphabet[b] = text[k]
             THEN Append(bytes,
                         CHOOSE b \in Byte : Base64Alphabet[b] = text[k])
             ELSE bytes)

base64Decode(text) == Base64DecodeLoop(text, 1, <<>>)

\* Buffer.from(bytes).toString('base64')
base64Encode(bytes) == [k \in 1 .. Len(bytes) |-> Base64Alphabet[bytes[k]]]

NoRequest == [route |-> "none", secret |-> JsUndefined,
              threshold |-> JsUndefined, totalShares |-> JsUndefined,
              shares |-> JsUndefined]

NoResponse == [status |-> 0, success |-> FALSE, error |-> "none",
               shares |-> <<>>, secret |-> <<>>, valid |-> FALSE,
               sharesProvided |-> 0, threshold |-> 0]

NoServiceCall == [fn |-> "none", secret |-> <<>>, threshold |-> 0,
                  totalShares |-> 0, shares |-> <<>>]

RestAtRest ==
    /\ request = NoRequest
    /\ response = NoResponse
    /\ serviceCall = NoServiceCall

--------------------------------------------------------------------------
\* REST add-on: the instance table (db/database.ts, db/models.ts)

\* A field the JSON body does not carry, and NULL in a column.
Missing == "<missing>"

Null == "<null>"

NoProvRequest == [route |-> "none", quicknodeId |-> Missing,
                  endpointId |-> Missing, plan |-> Missing, chain |-> Missing]

NoProvResponse == [status |-> 0, message |-> "none"]

ProvisionAtRest ==
    /\ instances = {}
    /\ nextId = 1
    /\ provRequest = NoProvRequest
    /\ provResponse = NoProvResponse

--------------------------------------------------------------------------
\* The caller: inputs and operations

SecretLengths == (FIELD_BYTES - 1) .. (FIELD_BYTES + 1)

Secrets == UNION {ByteStrings(n) : n \in SecretLengths}

\* Thresholds of a split: everything up to MaxThreshold, and one value above
\* MAX_SHARES + 1 (a threshold larger than a too large totalShares).
Thresholds == (0 .. MaxThreshold) \cup {MAX_SHARES + 2}

TotalShares == 0 .. (MAX_SHARES + 1)

\* The elements of s at the positions in S, in the order of s.
RECURSIVE PickLoop(_, _, _, _)
PickLoop(s, S, k, acc) ==
    IF k > Len(s) THEN acc
    ELSE PickLoop(s, S, k + 1, IF k \in S THEN Append(acc, s[k]) ELSE acc)

Pick(s, S) == PickLoop(s, S, 1, <<>>)

\* s with byte b of the value of share i replaced by v.
WithByte(s, i, b, v) ==
    [s EXCEPT ![i] = [index |-> s[i].index,
                      value |-> [s[i].value EXCEPT ![b] = v]]]

Init ==
    /\ pc = "init"
    /\ secret \in Secrets
    /\ threshold \in Thresholds
    /\ totalShares \in TotalShares
    /\ splitErr = "none"
    /\ shares = <<>>
    /\ coefficients = <<>>
    /\ evalPoints = <<>>
    /\ held = <<>>
    /\ tamperedAt = 0
    /\ op = "none"
    /\ expected = 0
    /\ combineErr = "none"
    /\ combined = <<>>
    /\ verdict = FALSE
    /\ combineCalls = 0
    /\ raised = "none"
    /\ encryptionKey = <<>>
    /\ created = <<>>
    /\ ciphertext = <<>>
    /\ decrypted = <<>>
    /\ decryptErr = "none"
    /\ effects = <<>>
    /\ EngineAtRest
    /\ FieldAtRest
    /\ RestAtRest
    /\ ProvisionAtRest

\* splitSecret(secret, threshold, totalShares) throws.
SplitSecretFails ==
    /\ pc = "init"
    /\ splitSecretValidate(secret, threshold, totalShares) # "none"
    /\ splitErr' = splitSecretValidate(secret, threshold, totalShares)
    /\ pc' = "split"
    /\ UNCHANGED <<secret, threshold, totalShares, shares, coefficients,
                   evalPoints, held, tamperedAt, op, expected, combineErr,
                   combined, verdict, combineCalls, raised>>
    /\ effects' = splitSecretEffects(secret, threshold, totalShares)
    /\ UNCHANGED cipherVars
    /\ UNCHANGED engineVars
    /\ UNCHANGED fieldVars
    /\ UNCHANGED restVars
    /\ UNCHANGED provVars

\* splitSecret(secret, threshold, totalShares) returns.
SplitSecretReturns ==
    /\ pc = "init"
    /\ splitSecretValidate(secret, threshold, totalShares) = "none"
    /\ \E randomBytes \in RandomDraws(threshold) :
          LET coefs == generateCoefficients(bytesToBigInt(secret),
                                            threshold - 1, randomBytes)
          IN  /\ coefficients' = coefs
              /\ evalPoints' = splitPoints(totalShares)
              /\ shares' = splitSecretShares(coefs, totalShares)
    /\ pc' = "split"
    /\ UNCHANGED <<secret, threshold, totalShares, splitErr, held, tamperedAt,
                   op, expected, combineErr, combined, verdict, combineCalls,
                   raised>>
    /\ effects' = splitSecretEffects(secret, threshold, totalShares)
    /\ UNCHANGED cipherVars
    /\ UNCHANGED engineVars
    /\ UNCHANGED fieldVars
    /\ UNCHANGED restVars
    /\ UNCHANGED provVars

\* combineShares(held), held the shares at any set S of positions of the
\* list the split returned, in order (no share after a failed split).
CombineShares ==
    /\ pc = "split"
    /\ \E S \in SUBSET (1 .. Len(shares)) :
          /\ held' = Pick(shares, S)
          /\ combineErr' = combineShares(Pick(shares, S)).err
          /\ combined' = combineShares(Pick(shares, S)).value
          /\ effects' = combineSharesEffects(Pick(shares, S))
    /\ op' = "combine"
    /\ pc' = "done"
    /\ UNCHANGED <<secret, threshold, totalShares, splitErr, shares,
                   coefficients, evalPoints, tamperedAt, expected, verdict,
                   combineCalls, raised>>
    /\ UNCHANGED cipherVars
    /\ UNCHANGED engineVars
    /\ UNCHANGED fieldVars
    /\ UNCHANGED restVars
    /\ UNCHANGED provVars

\* One byte of the value of one share of the returned list is changed.
Tamper ==
    /\ pc = "split"
    /\ \E i \in 1 .. Len(shares), b \in 1 .. FIELD_BYTES, v \in Byte :
          /\ v # shares[i].value[b]
          /\ held' = WithByte(shares, i, b, v)
          /\ tamperedAt' = i
    /\ pc' = "tampered"
    /\ UNCHANGED <<secret, threshold, totalShares, splitErr, shares,
                   coefficients, evalPoints, op, expected, combineErr,
                   combined, verdict, combineCalls, raised>>
    /\ UNCHANGED effects
    /\ UNCHANGED cipherVars
    /\ UNCHANGED engineVars
    /\ UNCHANGED fieldVars
    /\ UNCHANGED restVars
    /\ UNCHANGED provVars

\* verifyShares(held, expectedThreshold), held the first k shares of the list
\* the split returned: shares.slice(0, k).
VerifyShares ==
    /\ pc = "split"
    /\ \E k \in 0 .. Len(shares), expectedThreshold \in 0 .. MaxThreshold :
          /\ held' = Slice(shares, 0, k)
          /\ expected' = expectedThreshold
          /\ verdict' = verifyShares(Slice(shares, 0, k), expectedThreshold).ok
          /\ combineCalls' =
                 verifyShares(Slice(shares, 0, k), expectedThreshold).calls
          /\ raised' =
                 verifyShares(Slice(shares, 0, k), expectedThreshold).raised
          /\ effects' =
                 verifySharesEffects(Slice(shares, 0, k), expectedThreshold)
    /\ op' = "verify"
    /\ pc' = "done"
    /\ UNCHANGED <<secret, threshold, totalShares, splitErr, shares,
                   coefficients, evalPoints, tamperedAt, combineErr, combined>>
    /\ UNCHANGED cipherVars
    /\ UNCHANGED engineVars
    /\ UNCHANGED fieldVars
    /\ UNCHANGED restVars
    /\ UNCHANGED provVars

\* verifyShares(held, threshold) on the altered list, against the threshold
\* of its split.
VerifyTampered ==
    /\ pc = "tampered"
    /\ expected' = threshold
    /\ verdict' = verifyShares(held, threshold).ok
    /\ combineCalls' = verifyShares(held, threshold).calls
    /\ raised' = verifyShares(held, threshold).raised
    /\ op' = "verify"
    /\ pc' = "done"
    /\ UNCHANGED <<secret, threshold, totalShares, splitErr, shares,
                   coefficients, evalPoints, held, tamperedAt, combineErr,
                   combined>>
    /\ effects' = verifySharesEffects(held, threshold)
    /\ UNCHANGED cipherVars
    /\ UNCHANGED engineVars
    /\ UNCHANGED fieldVars
    /\ UNCHANGED restVars
    /\ UNCHANGED provVars

\* Split, then combine any sub-list.
Next ==
    \/ SplitSecretFails
    \/ SplitSecretReturns
    \/ CombineShares

Spec == Init /\ [][Next]_vars

\* Split, then verify a prefix, or alter one byte and verify.
NextVerify ==
    \/ SplitSecretFails
    \/ SplitSecretReturns
    \/ Tamper
    \/ VerifyShares
    \/ VerifyTampered

SpecVerify == Init /\ [][NextVerify]_vars

--------------------------------------------------------------------------
\* Properties

\* The split returned, and the caller combined an unaltered sub-list of it.
CombinedUntampered ==
    /\ pc = "done"
    /\ op = "combine"
    /\ splitErr = "none"
    /\ tamperedAt = 0

\* C1: split/combine round trip.  For every secret of full width, every
\* valid (M,N) and every draw of the coefficients, combineShares of any M of
\* the shares returned by splitSecret returns the secret, byte for byte.
C1_RoundTripExactThreshold ==
    (CombinedUntampered /\ Len(held) = threshold)
        => (combineErr = "none" /\ combined = secret)

\* The same round trip for the secrets whose integer value is below PRIME
\* (the case the field arithmetic covers).
RoundTripBelowPrime ==
    (CombinedUntampered /\ Len(held) >= threshold
        /\ bytesToBigInt(secret) < PRIME)
        => (combineErr = "none" /\ combined = secret)

\* What combineShares returns for a secret at or above PRIME: the secret
\* reduced modulo PRIME.
RoundTripReduced ==
    (CombinedUntampered /\ Len(held) >= threshold)
        => (combineErr = "none"
            /\ combined = bigIntToBytes(bytesToBigInt(secret) % PRIME))

\* C2: over-threshold round trip.  combineShares of more than M of the
\* shares returned by splitSecret(secret, M, N), all N included, returns the
\* secret.
C2_RoundTripOverThreshold ==
    (CombinedUntampered /\ Len(held) > threshold)
        => (combineErr = "none" /\ combined = secret)

\* The error the four checks of splitSecret must give, first violated check
\* first, written from the claim.
ExpectedSplitError ==
    IF Len(secret) # FIELD_BYTES THEN "InvalidSecretLength"
    ELSE IF threshold < MIN_THRESHOLD THEN "ThresholdTooLow"
    ELSE IF totalShares < threshold THEN "InsufficientShares"
    ELSE IF totalShares > MAX_SHARES THEN "TooManyShares"
    ELSE "none"

\* C4: splitSecret returns exactly when the secret has full width and
\* 2 <= threshold <= totalShares <= MAX_SHARES; otherwise it throws the error
\* of the first violated check, in the order length, threshold, totalShares
\* against threshold, totalShares against MAX_SHARES.
C4_SplitValidationOrder ==
    pc # "init" =>
        /\ (splitErr = "none") <=>
              (/\ Len(secret) = FIELD_BYTES
               /\ MIN_THRESHOLD <= threshold
               /\ threshold <= totalShares
               /\ totalShares <= MAX_SHARES)
        /\ splitErr = ExpectedSplitError
        /\ (splitErr = "none") <=> (shares # <<>>)

\* A threshold above a too large totalShares is reported as
\* InsufficientShares, and a short secret with threshold 1 as
\* InvalidSecretLength.
C4_Witness ==
    /\ pc = "split"
    /\ Len(secret) = FIELD_BYTES
    /\ totalShares > MAX_SHARES
    /\ threshold > totalShares
    /\ splitErr = "InsufficientShares"

\* C5: a split that returns gives exactly N shares, the share at position k
\* has index k (1..N in order), every value has full width, and the
\* polynomial is never evaluated at 0.
C5_SharesIndexedFromOne ==
    (pc # "init" /\ splitErr = "none") =>
        /\ Len(shares) = totalShares
        /\ \A k \in 1 .. Len(shares) :
              /\ shares[k].index = k
              /\ Len(shares[k].value) = FIELD_BYTES
              /\ shares[k].value \in ByteStrings(FIELD_BYTES)
        /\ Len(evalPoints) = totalShares
        /\ \A k \in 1 .. Len(evalPoints) : evalPoints[k] # 0

C5_Witness ==
    /\ pc = "split"
    /\ splitErr = "none"
    /\ threshold = 3
    /\ totalShares = MAX_SHARES
    /\ Len(shares) = MAX_SHARES
    /\ shares[MAX_SHARES].index = MAX_SHARES

\* C6: combineShares throws InsufficientShares exactly when it is given
\* fewer than 2 shares, and then returns nothing.
C6_CombineMinimum ==
    (pc = "done" /\ op = "combine") =>
        /\ (combineErr = "InsufficientShares") <=> (Len(held) < MIN_COMBINE)
        /\ (combineErr = "none") <=> (Len(held) >= MIN_COMBINE)
        /\ (combineErr # "none") => (combined = <<>>)
        /\ (combineErr = "none") => (Len(combined) = FIELD_BYTES)

C6_Witness ==
    /\ pc = "done"
    /\ op = "combine"
    /\ splitErr = "none"
    /\ Len(held) = 1
    /\ combineErr = "InsufficientShares"
    /\ combined = <<>>

\* The shares of shs whose index is in I, in the order of shs.
SharesWithIndex(shs, I) == SelectSeq(shs, LAMBDA h : h.index \in I)

HeldIndices == {held[k].index : k \in 1 .. Len(held)}

\* What splitSecret returns for a secret of integer value s and the draws
\* randomBytes.
SharesFor(s, thr, total, randomBytes) ==
    splitSecretShares(generateCoefficients(s, thr - 1, randomBytes), total)

\* The (threshold, totalShares) pairs splitSecret accepts, and the secrets in
\* [0, PRIME).
SecrecyCases ==
    {c \in (MIN_THRESHOLD .. MaxThreshold) \X (MIN_THRESHOLD .. MAX_SHARES)
            \X (0 .. (PRIME - 1)) : c[1] <= c[2]}

\* The sets of thr - 1 indices of a split into total shares.
IndexSets(thr, total) ==
    {I \in SUBSET (1 .. total) : Cardinality(I) = thr - 1}

\* For each (thr, total, s): the share lists splitSecret can return for the
\* secret s, over all draws of the coefficients.  (@@ makes TLC build the
\* table once.)
EmittedLists ==
    [c \in SecrecyCases |->
        {SharesFor(c[3], c[1], c[2], randomBytes) :
            randomBytes \in RandomDraws(c[1])}] @@ <<>>

SecrecyKeys ==
    UNION {{<<c[1], c[2], c[3], I>> : I \in IndexSets(c[1], c[2])} :
           c \in SecrecyCases}

\* For each (thr, total, s, I): the tuples of shares splitSecret can emit for
\* the secret s at the thr - 1 indices I, over all draws of the coefficients.
EmittedTuples ==
    [k \in SecrecyKeys |->
        {SharesWithIndex(l, k[4]) : l \in EmittedLists[<<k[1], k[2], k[3]>>]}]
    @@ <<>>

CanEmit(thr, total, s, I, tuple) ==
    /\ <<thr, total, s, I>> \in SecrecyKeys
    /\ tuple \in EmittedTuples[<<thr, total, s, I>>]

\* C3: secrecy below the threshold.  Whatever M-1 shares a split of a secret
\* s in [0, PRIME) emits, a split of every other secret s2 in [0, PRIME) can
\* emit the same shares at the same indices (so the sets of emitted tuples
\* are the same for all secrets).
C3_SecrecyBelowThreshold ==
    (/\ CombinedUntampered
     /\ Len(held) = threshold - 1
     /\ bytesToBigInt(secret) < PRIME)
        => \A s2 \in 0 .. (PRIME - 1) :
              CanEmit(threshold, totalShares, s2, HeldIndices, held)

C3_Witness ==
    /\ CombinedUntampered
    /\ threshold = 3
    /\ Len(held) = threshold - 1
    /\ HeldIndices = {1, totalShares}
    /\ bytesToBigInt(secret) = 3
    /\ CanEmit(threshold, totalShares, 4, HeldIndices, held)

\* C7: combineShares does not enforce the threshold.  Given k shares of a
\* split with 2 <= k < M it returns a value of full width and no error, and
\* for these indices some draw of the coefficients makes that value differ
\* from the secret.
C7_BelowThresholdNotFlagged ==
    (CombinedUntampered /\ MIN_COMBINE <= Len(held) /\ Len(held) < threshold)
        => /\ combineErr = "none"
           /\ combined \in ByteStrings(FIELD_BYTES)
           /\ \E randomBytes \in RandomDraws(threshold) :
                 combineShares(SharesWithIndex(
                     SharesFor(bytesToBigInt(secret), threshold, totalShares,
                               randomBytes), HeldIndices)).value # secret

C7_Witness ==
    /\ CombinedUntampered
    /\ Len(held) = 2
    /\ threshold = 3
    /\ bytesToBigInt(secret) < PRIME
    /\ combineErr = "none"
    /\ combined # secret

\* C8: verifyShares returns false for a list shorter than expectedThreshold,
\* and calls combineShares not once.
C8_VerifyTooFew ==
    (pc = "done" /\ op = "verify" /\ Len(held) < expected)
        => (verdict = FALSE /\ combineCalls = 0)

C8_Witness ==
    /\ pc = "done"
    /\ op = "verify"
    /\ splitErr = "none"
    /\ Len(held) = 2
    /\ expected = 3
    /\ verdict = FALSE
    /\ combineCalls = 0

\* The caller verified the list of a split with N > M against M.
VerifiedAgainstOwnThreshold ==
    /\ pc = "done"
    /\ op = "verify"
    /\ splitErr = "none"
    /\ totalShares > threshold
    /\ Len(held) = totalShares
    /\ expected = threshold

\* C9: the unaltered result of splitSecret(secret, M, N) with N > M verifies
\* against M, for every secret of full width and every draw.
C9_SplitOutputVerifies ==
    (VerifiedAgainstOwnThreshold /\ tamperedAt = 0 /\ held = shares)
        => (verdict = TRUE /\ combineCalls = 2)

C9_Witness ==
    /\ VerifiedAgainstOwnThreshold
    /\ tamperedAt = 0
    /\ held = shares
    /\ bytesToBigInt(secret) >= PRIME
    /\ threshold = 3
    /\ totalShares = MAX_SHARES
    /\ verdict = TRUE

\* C10 as stated: changing one byte of the value of any one share, whichever
\* it is, of a split with N > M makes verifyShares(shares, M) return false.
C10_TamperAnyShareDetected ==
    (VerifiedAgainstOwnThreshold /\ tamperedAt # 0) => verdict = FALSE

\* C10 as amended: changing one byte of the value of one of the first M + 1
\* shares makes verifyShares(shares, M) return false.
C10_TamperInFirstSharesDetected ==
    (VerifiedAgainstOwnThreshold /\ tamperedAt \in 1 .. (threshold + 1))
        => verdict = FALSE

C10_Witness ==
    /\ VerifiedAgainstOwnThreshold
    /\ threshold = 3
    /\ totalShares = MAX_SHARES
    /\ tamperedAt = 2
    /\ held # shares
    /\ verdict = FALSE

--------------------------------------------------------------------------
\* Arbitrary share lists: verifyShares and combineShares on lists that need
\* not come from a split (SpecShares)

\* Share indices of a hand-made list: zero, and values that can repeat.
ShareIndices == 0 .. MIN_COMBINE

\* Share values of a hand-made list: every value of full width, an empty
\* value and a value one byte too long.
ShareValues ==
    ByteStrings(FIELD_BYTES)
        \cup {<<>>, [i \in 1 .. (FIELD_BYTES + 1) |-> BYTE_RADIX - 1]}

ShareUniverse == [index : ShareIndices, value : ShareValues]

\* Lists of up to one share more than combineShares needs: a verifyShares
\* call on them can make both reconstructions.
ShareLists == UNION {[1 .. n -> ShareUniverse] : n \in 0 .. (MIN_COMBINE + 1)}

\* expectedThreshold arguments, a negative one included.
ExpectedThresholds == (-1) .. MaxThreshold

InitShares ==
    /\ pc = "held"
    /\ held \in ShareLists
    /\ secret = <<>>
    /\ threshold = 0
    /\ totalShares = 0
    /\ splitErr = "none"
    /\ shares = <<>>
    /\ coefficients = <<>>
    /\ evalPoints = <<>>
    /\ tamperedAt = 0
    /\ op = "none"
    /\ expected = 0
    /\ combineErr = "none"
    /\ combined = <<>>
    /\ verdict = FALSE
    /\ combineCalls = 0
    /\ raised = "none"
    /\ encryptionKey = <<>>
    /\ created = <<>>
    /\ ciphertext = <<>>
    /\ decrypted = <<>>
    /\ decryptErr = "none"
    /\ effects = <<>>
    /\ EngineAtRest
    /\ FieldAtRest
    /\ RestAtRest
    /\ ProvisionAtRest

\* verifyShares(held, expectedThreshold) on the hand-made list.
VerifyHeld ==
    /\ pc = "held"
    /\ \E expectedThreshold \in ExpectedThresholds :
          /\ expected' = expectedThreshold
          /\ verdict' = verifyShares(held, expectedThreshold).ok
          /\ combineCalls' = verifyShares(held, expectedThreshold).calls
          /\ raised' = verifyShares(held, expectedThreshold).raised
    /\ op' = "verify"
    /\ pc' = "done"
    /\ UNCHANGED <<secret, threshold, totalShares, splitErr, shares,
                   coefficients, evalPoints, held, tamperedAt, combineErr,
                   combined>>
    /\ effects' = verifySharesEffects(held, expected')
    /\ UNCHANGED cipherVars
    /\ UNCHANGED engineVars
    /\ UNCHANGED fieldVars
    /\ UNCHANGED restVars
    /\ UNCHANGED provVars

\* combineShares(held) on the hand-made list.
CombineHeld ==
    /\ pc = "held"
    /\ combineErr' = combineShares(held).err
    /\ combined' = combineShares(held).value
    /\ op' = "combine"
    /\ pc' = "done"
    /\ UNCHANGED <<secret, threshold, totalShares, splitErr, shares,
                   coefficients, evalPoints, held, tamperedAt, expected,
                   verdict, combineCalls, raised>>
    /\ effects' = combineSharesEffects(held)
    /\ UNCHANGED cipherVars
    /\ UNCHANGED engineVars
    /\ UNCHANGED fieldVars
    /\ UNCHANGED restVars
    /\ UNCHANGED provVars

\* C11 (as stated): whenever the list holds exactly expectedThreshold
\* shares, verifyShares returns true without a second reconstruction, for
\* every expectedThreshold and whatever the shares are.
C11_ExactSizeAlwaysTrue ==
    (pc = "done" /\ op = "verify" /\ Len(held) = expected)
        => (verdict = TRUE /\ combineCalls <= 1)

\* C11 (amended): whenever the list holds exactly expectedThreshold shares
\* and expectedThreshold is at least 2, verifyShares returns true after one
\* reconstruction, whatever the shares are.
C11_ExactSizeTrueFromTwo ==
    (pc = "done" /\ op = "verify" /\ Len(held) = expected
        /\ expected >= MIN_COMBINE)
        => (verdict = TRUE /\ combineCalls = 1)

\* A list of exactly expectedThreshold >= 2 shares with a repeated index
\* was verified.
C11_Witness ==
    /\ pc = "done"
    /\ op = "verify"
    /\ expected >= MIN_COMBINE
    /\ Len(held) = expected
    /\ held[1].index = held[2].index
    /\ verdict = TRUE

\* C12: verifyShares never raises.  For every share list and every
\* expectedThreshold (below 2, negative, lists shorter than 2, repeated or
\* zero indices, values of the wrong width) it returns a boolean, and a
\* failure inside combineShares becomes the result false.
C12_VerifyNeverRaises ==
    (pc = "done" /\ op = "verify")
        => /\ raised = "none"
           /\ verdict \in BOOLEAN
           /\ (Len(held) >= expected
                 /\ verifySharesTry(held, expected).thrown # "none")
                 => verdict = FALSE

\* combineShares failed inside a verifyShares call that passed the length
\* check.
C12_Witness ==
    /\ pc = "done"
    /\ op = "verify"
    /\ Len(held) >= expected
    /\ verifySharesTry(held, expected).thrown = "InsufficientShares"
    /\ verdict = FALSE
    /\ raised = "none"

--------------------------------------------------------------------------
\* Threshold cipher: createThresholdEncryption and decryptWithThreshold

\* The "^" of two bytes.
RECURSIVE Xor(_, _)
Xor(a, b) ==
    IF a = 0 /\ b = 0 THEN 0
    ELSE (((a % 2) + (b % 2)) % 2) + 2 * Xor(a \div 2, b \div 2)

\* Mutant: the key index does not wrap around.
XorBytes_NoWrap(data, key) ==
    [i \in 1 .. Len(data) |->
        Xor(data[i], IF i <= FIELD_BYTES THEN key[i] ELSE 0)]

\* out[i] = data[i] ^ key[i % 32], i counted from 0.
XorBytes(data, key) ==
    [i \in 1 .. Len(data) |-> Xor(data[i], key[((i - 1) % FIELD_BYTES) + 1])]

\* Mutant: the result also carries the key.
createdResult_WithKey(encryptedSecret, keyShares, key) ==
    [encryptedSecret |-> encryptedSecret, keyShares |-> keyShares,
     encryptionKey |-> key]

\* return { encryptedSecret, keyShares };
createdResult(encryptedSecret, keyShares, key) ==
    [encryptedSecret |-> encryptedSecret, keyShares |-> keyShares]

\* createThresholdEncryption: keyBytes is the draw of the key, randomBytes
\* the draws of the coefficients.  [err, result], result <<>> when it throws.
createThresholdEncryption(sec, thr, total, keyBytes, randomBytes) ==
    LET encryptedSecret == XorBytes(sec, keyBytes)
        err == splitSecretValidate(keyBytes, thr, total)
    IN  IF err # "none" THEN [err |-> err, result |-> <<>>]
        ELSE [err |-> "none",
              result |-> createdResult(
                  encryptedSecret,
                  splitSecretShares(
                      generateCoefficients(bytesToBigInt(keyBytes), thr - 1,
                                           randomBytes),
                      total),
                  keyBytes)]

createThresholdEncryptionEffects(sec, thr, total, keyBytes) ==
    <<"getRandomValues">> \o Repeat(<<"xor">>, Len(sec))
        \o splitSecretEffects(keyBytes, thr, total)

\* Mutant: key shares with a repeated index are rejected.
decryptWithThreshold_DistinctIndices(encryptedSecret, keyShares) ==
    LET key == combineShares(keyShares)
    IN  IF key.err # "none" THEN [err |-> key.err, value |-> <<>>]
        ELSE IF \E i, j \in 1 .. Len(keyShares) :
                    i # j /\ keyShares[i].index = keyShares[j].index
        THEN [err |-> "InvalidShares", value |-> <<>>]
        ELSE [err |-> "none", value |-> XorBytes(encryptedSecret, key.value)]

\* decryptWithThreshold: [err, value].
decryptWithThreshold(encryptedSecret, keyShares) ==
    LET key == combineShares(keyShares)
    IN  IF key.err # "none" THEN [err |-> key.err, value |-> <<>>]
        ELSE [err |-> "none", value |-> XorBytes(encryptedSecret, key.value)]

decryptWithThresholdEffects(encryptedSecret, keyShares) ==
    IF combineSharesValidate(keyShares) # "none" THEN <<"throw">>
    ELSE Front(combineSharesEffects(keyShares))
             \o Repeat(<<"xor">>, Len(encryptedSecret)) \o <<"return">>

\* Secrets to encrypt: empty, one byte, the width of the key, and one byte
\* more than the key (the key wraps around).
PlainLengths == {0, 1, FIELD_BYTES, FIELD_BYTES + 1}

Plaintexts == UNION {ByteStrings(n) : n \in PlainLengths}

\* Thresholds and share counts of the cipher: every splitter error and the
\* valid pairs up to one above the minimum threshold.
CipherThresholds == 0 .. (MIN_THRESHOLD + 1)

CipherTotals == (1 .. (MIN_THRESHOLD + 1)) \cup {MAX_SHARES + 1}

InitCipher ==
    /\ pc = "init"
    /\ secret \in Plaintexts
    /\ threshold \in CipherThresholds
    /\ totalShares \in CipherTotals
    /\ splitErr = "none"
    /\ shares = <<>>
    /\ coefficients = <<>>
    /\ evalPoints = <<>>
    /\ held = <<>>
    /\ tamperedAt = 0
    /\ op = "none"
    /\ expected = 0
    /\ combineErr = "none"
    /\ combined = <<>>
    /\ verdict = FALSE
    /\ combineCalls = 0
    /\ raised = "none"
    /\ encryptionKey = <<>>
    /\ created = <<>>
    /\ ciphertext = <<>>
    /\ decrypted = <<>>
    /\ decryptErr = "none"
    /\ effects = <<>>
    /\ EngineAtRest
    /\ FieldAtRest
    /\ RestAtRest
    /\ ProvisionAtRest

\* createThresholdEncryption(secret, threshold, totalShares) throws the
\* error of splitSecret.
CreateFails ==
    /\ pc = "init"
    /\ \E keyBytes \in ByteStrings(FIELD_BYTES) :
          /\ splitSecretValidate(keyBytes, threshold, totalShares) # "none"
          /\ encryptionKey' = keyBytes
          /\ splitErr' = createThresholdEncryption(
                             secret, threshold, totalShares, keyBytes, <<>>).err
          /\ created' = createThresholdEncryption(
                            secret, threshold, totalShares, keyBytes, <<>>).result
          /\ effects' = createThresholdEncryptionEffects(
                            secret, threshold, totalShares, keyBytes)
    /\ pc' = "created"
    /\ UNCHANGED <<secret, threshold, totalShares, shares, coefficients,
                   evalPoints, held, tamperedAt, op, expected, combineErr,
                   combined, verdict, combineCalls, raised, ciphertext,
                   decrypted, decryptErr>>
    /\ UNCHANGED engineVars
    /\ UNCHANGED fieldVars
    /\ UNCHANGED restVars
    /\ UNCHANGED provVars

\* createThresholdEncryption(secret, threshold, totalShares) returns.
CreateReturns ==
    /\ pc = "init"
    /\ \E keyBytes \in ByteStrings(FIELD_BYTES),
          randomBytes \in RandomDraws(threshold) :
          /\ splitSecretValidate(keyBytes, threshold, totalShares) = "none"
          /\ encryptionKey' = keyBytes
          /\ coefficients' = generateCoefficients(bytesToBigInt(keyBytes),
                                                  threshold - 1, randomBytes)
          /\ evalPoints' = splitPoints(totalShares)
          /\ created' = createThresholdEncryption(
                            secret, threshold, totalShares, keyBytes,
                            randomBytes).result
          /\ effects' = createThresholdEncryptionEffects(
                            secret, threshold, totalShares, keyBytes)
    /\ pc' = "created"
    /\ UNCHANGED <<secret, threshold, totalShares, splitErr, shares, held,
                   tamperedAt, op, expected, combineErr, combined, verdict,
                   combineCalls, raised, ciphertext, decrypted, decryptErr>>
    /\ UNCHANGED engineVars
    /\ UNCHANGED fieldVars
    /\ UNCHANGED restVars
    /\ UNCHANGED provVars

\* decryptWithThreshold(created.encryptedSecret, held), held the key shares
\* at any set S of positions of created.keyShares, in order.
DecryptWithThreshold ==
    /\ pc = "created"
    /\ splitErr = "none"
    /\ \E S \in SUBSET (1 .. Len(created.keyShares)) :
          /\ held' = Pick(created.keyShares, S)
          /\ decryptErr' = decryptWithThreshold(
                               created.encryptedSecret,
                               Pick(created.keyShares, S)).err
          /\ decrypted' = decryptWithThreshold(
                              created.encryptedSecret,
                              Pick(created.keyShares, S)).value
          /\ effects' = decryptWithThresholdEffects(
                            created.encryptedSecret, Pick(created.keyShares, S))
    /\ ciphertext' = created.encryptedSecret
    /\ op' = "decrypt"
    /\ pc' = "done"
    /\ UNCHANGED <<secret, threshold, totalShares, splitErr, shares,
                   coefficients, evalPoints, tamperedAt, expected, combineErr,
                   combined, verdict, combineCalls, raised, encryptionKey,
                   created>>
    /\ UNCHANGED engineVars
    /\ UNCHANGED fieldVars
    /\ UNCHANGED restVars
    /\ UNCHANGED provVars

NextCipher ==
    \/ CreateFails
    \/ CreateReturns
    \/ DecryptWithThreshold

SpecCipher == InitCipher /\ [][NextCipher]_vars

\* createThresholdEncryption returned.
Created == pc \in {"created", "done"} /\ splitErr = "none"

\* C13: threshold-cipher round trip.  For every secret of any length, every
\* valid (M,N), every drawn key and every draw of the coefficients,
\* decryptWithThreshold of the ciphertext and any sub-list of at least M key
\* shares returns the secret.
C13_CipherRoundTrip ==
    (pc = "done" /\ op = "decrypt" /\ Len(held) >= threshold)
        => (decryptErr = "none" /\ decrypted = secret)

\* The same round trip for the drawn keys whose integer value is below
\* PRIME.
CipherRoundTripKeyBelowPrime ==
    (pc = "done" /\ op = "decrypt" /\ Len(held) >= threshold
        /\ bytesToBigInt(encryptionKey) < PRIME)
        => (decryptErr = "none" /\ decrypted = secret)

\* C14: createThresholdEncryption(secret, M, N) with valid (M,N) accepts a
\* secret of any length, returns a ciphertext of secret.length bytes and N
\* key shares indexed 1..N, and its result has no field holding the key.
C14_CreateShape ==
    (pc \in {"created", "done"})
        => /\ (splitErr = "none")
                 <=> (threshold >= MIN_THRESHOLD /\ totalShares >= threshold
                        /\ totalShares <= MAX_SHARES)
           /\ Created =>
                 /\ DOMAIN created = {"encryptedSecret", "keyShares"}
                 /\ Len(created.encryptedSecret) = Len(secret)
                 /\ Len(created.keyShares) = totalShares
                 /\ \A i \in 1 .. totalShares :
                        created.keyShares[i].index = i

\* A secret longer than the key was encrypted under a valid (M,N).
C14_Witness ==
    /\ Created
    /\ Len(secret) = FIELD_BYTES + 1
    /\ totalShares > threshold
    /\ Len(created.keyShares) = totalShares

\* C15: the ciphertext is a repeating-key XOR: encryptedSecret[i] =
\* secret[i] ^ key[i mod 32], so for a secret longer than the key
\* encryptedSecret[i] ^ encryptedSecret[i+32] = secret[i] ^ secret[i+32].
C15_RepeatingKeyXor ==
    Created =>
        /\ \A i \in 1 .. Len(secret) :
              created.encryptedSecret[i] =
                  Xor(secret[i], encryptionKey[((i - 1) % FIELD_BYTES) + 1])
        /\ \A i \in 1 .. (Len(secret) - FIELD_BYTES) :
              Xor(created.encryptedSecret[i],
                  created.encryptedSecret[i + FIELD_BYTES])
                  = Xor(secret[i], secret[i + FIELD_BYTES])

\* A secret longer than the key, whose first byte and first byte past the
\* key differ, was encrypted with a key whose first byte is not zero.
C15_Witness ==
    /\ Created
    /\ Len(secret) > FIELD_BYTES
    /\ secret[1] # secret[1 + FIELD_BYTES]
    /\ encryptionKey[1] # 0
    /\ created.encryptedSecret[1] # secret[1]

\* C18: when the splitter rejects (threshold, totalShares),
\* createThresholdEncryption fails with the splitter's error before any
\* randomness is consumed and before any ciphertext byte is computed, and
\* returns neither ciphertext nor key shares.
C18_CreateFailsBeforeWork ==
    (pc = "created" /\ splitErr # "none")
        => /\ splitErr = splitSecretValidate(encryptionKey, threshold,
                                              totalShares)
           /\ DOMAIN created = {}
           /\ effects = <<"throw">>

\* What holds of a rejected createThresholdEncryption call: the splitter's
\* error, nothing returned, after the key was drawn and the ciphertext
\* computed.
CreateFailsAfterWork ==
    (pc = "created" /\ splitErr # "none")
        => /\ splitErr = splitSecretValidate(encryptionKey, threshold,
                                              totalShares)
           /\ DOMAIN created = {}
           /\ effects = <<"getRandomValues">>
                            \o Repeat(<<"xor">>, Len(secret)) \o <<"throw">>

\* Ciphertexts handed to decryptWithThreshold with a hand-made share list:
\* empty, one byte, and one byte longer than the key.
Ciphertexts ==
    {<<>>} \cup ByteStrings(1)
        \cup {[i \in 1 .. (FIELD_BYTES + 1) |-> i % BYTE_RADIX]}

\* decryptWithThreshold(encryptedSecret, held) on the hand-made list.
DecryptHeld ==
    /\ pc = "held"
    /\ \E encryptedSecret \in Ciphertexts :
          /\ ciphertext' = encryptedSecret
          /\ decryptErr' = decryptWithThreshold(encryptedSecret, held).err
          /\ decrypted' = decryptWithThreshold(encryptedSecret, held).value
          /\ effects' = decryptWithThresholdEffects(encryptedSecret, held)
    /\ op' = "decrypt"
    /\ pc' = "done"
    /\ UNCHANGED <<secret, threshold, totalShares, splitErr, shares,
                   coefficients, evalPoints, held, tamperedAt, expected,
                   combineErr, combined, verdict, combineCalls, raised,
                   encryptionKey, created>>
    /\ UNCHANGED engineVars
    /\ UNCHANGED fieldVars
    /\ UNCHANGED restVars
    /\ UNCHANGED provVars

NextShares ==
    \/ VerifyHeld
    \/ CombineHeld
    \/ DecryptHeld

SpecShares == InitShares /\ [][NextShares]_vars

\* C16: decryptWithThreshold authenticates nothing and checks no threshold.
\* Given at least 2 key shares, whatever they are, it returns a byte string
\* of the length of the ciphertext without error; given fewer than 2 it
\* fails with InsufficientShares and returns nothing.
C16_DecryptUnauthenticated ==
    (pc = "done" /\ op = "decrypt")
        => IF Len(held) >= MIN_COMBINE
           THEN /\ decryptErr = "none"
                /\ Len(decrypted) = Len(ciphertext)
                /\ effects[Len(effects)] = "return"
           ELSE /\ decryptErr = "InsufficientShares"
                /\ decrypted = <<>>
                /\ effects = <<"throw">>

\* Two key shares with the same index decrypted a ciphertext longer than
\* the key.
C16_Witness ==
    /\ pc = "done"
    /\ op = "decrypt"
    /\ Len(held) = MIN_COMBINE
    /\ held[1].index = held[2].index
    /\ held[1].value # held[2].value
    /\ Len(ciphertext) > FIELD_BYTES
    /\ decryptErr = "none"
    /\ Len(decrypted) = Len(ciphertext)

\* The cipher pipeline checks no threshold either: fewer key shares than
\* the threshold of the split, but at least 2, decrypt without error.
DecryptBelowThreshold ==
    (pc = "done" /\ op = "decrypt" /\ Len(held) < threshold
        /\ Len(held) >= MIN_COMBINE)
        => (decryptErr = "none" /\ Len(decrypted) = Len(secret))

--------------------------------------------------------------------------
\* Failing calls

\* A secret of the given length whose bytes are all zero, and a share list
\* of the given length whose shares are all the same: arguments that agree
\* with the caller's in nothing but their size.
BlankSecret(len) == [i \in 1 .. len |-> 0]

BlankShares(len) == [i \in 1 .. len |-> [index |-> 0, value |-> <<>>]]

\* C17: fail fast.  A failing splitSecret or combineShares call throws
\* before any draw from the random source and before any field arithmetic;
\* whether it fails, and with which error, depends on (secret length,
\* threshold, totalShares), respectively on the number of shares, alone;
\* and a failing call leaves nothing behind.
C17_FailFast ==
    /\ (pc = "split") =>
          /\ splitErr = splitSecretValidate(BlankSecret(Len(secret)),
                                             threshold, totalShares)
          /\ (splitErr # "none") =>
                /\ effects = <<"throw">>
                /\ shares = <<>>
                /\ coefficients = <<>>
                /\ evalPoints = <<>>
    /\ (pc = "done" /\ op = "combine") =>
          /\ combineErr = combineSharesValidate(BlankShares(Len(held)))
          /\ (combineErr # "none") =>
                /\ effects = <<"throw">>
                /\ combined = <<>>

\* A split with a threshold of at least 2 failed, and so did the combine
\* after it.
C17_Witness ==
    /\ pc = "done"
    /\ op = "combine"
    /\ threshold >= MIN_THRESHOLD
    /\ splitErr = "TooManyShares"
    /\ shares = <<>>
    /\ combineErr = "InsufficientShares"
    /\ effects = <<"throw">>

--------------------------------------------------------------------------
\* Concurrent callers (SpecEngine): every task makes call after call; the
\* calls of different tasks interleave at each draw from the random source.

\* (threshold, totalShares) of the concurrent splits: two rejected pairs,
\* one with a single drawn coefficient and one with two.
EnginePairs == {<<1, 2>>, <<3, 2>>, <<2, 2>>, <<3, 3>>}

EngineCalls ==
    {[op |-> "splitSecret", bytes |-> b, list |-> "none",
      threshold |-> mn[1], totalShares |-> mn[2]] :
        b \in {"secret", "shortSecret"}, mn \in EnginePairs}
    \cup {[op |-> "createThresholdEncryption", bytes |-> "plain",
           list |-> "none", threshold |-> mn[1], totalShares |-> mn[2]] :
             mn \in EnginePairs}
    \cup {[op |-> "combineShares", bytes |-> "none", list |-> l,
           threshold |-> 0, totalShares |-> 0] :
             l \in {"shareList", "shortList"}}
    \cup {[op |-> "verifyShares", bytes |-> "none", list |-> l,
           threshold |-> MIN_THRESHOLD, totalShares |-> 0] :
             l \in {"shareList", "shortList"}}
    \cup {[op |-> "decryptWithThreshold", bytes |-> "cipher", list |-> l,
           threshold |-> 0, totalShares |-> 0] :
             l \in {"shareList", "shortList"}}

Tail2(s) == SubSeq(s, 2, Len(s))

\* What a call returns, as [err, value], from its arguments and the bytes it
\* drew: the functions of the engine applied to them.
ResultOf(objects, call, draws) ==
    IF call.op = "splitSecret"
    THEN LET err == splitSecretValidate(objects[call.bytes], call.threshold,
                                        call.totalShares)
         IN  IF err # "none" THEN [err |-> err, value |-> <<>>]
             ELSE [err |-> "none",
                   value |-> splitSecretShares(
                       generateCoefficients(
                           bytesToBigInt(objects[call.bytes]),
                           call.threshold - 1, draws),
                       call.totalShares)]
    ELSE IF call.op = "createThresholdEncryption"
    THEN LET r == createThresholdEncryption(
                      objects[call.bytes], call.threshold, call.totalShares,
                      draws[1], Tail2(draws))
         IN  [err |-> r.err, value |-> r.result]
    ELSE IF call.op = "combineShares"
    THEN combineShares(objects[call.list])
    ELSE IF call.op = "verifyShares"
    THEN [err |-> verifyShares(objects[call.list], call.threshold).raised,
          value |-> verifyShares(objects[call.list], call.threshold).ok]
    ELSE decryptWithThreshold(objects[call.bytes], objects[call.list])

\* Number of draws in a sequence of effects.
RECURSIVE CountDraws(_)
CountDraws(e) ==
    IF e = <<>> THEN 0
    ELSE (IF e[1] = "getRandomValues" THEN 1 ELSE 0) + CountDraws(Tail(e))

\* The draws a call makes when it runs alone.
DrawsOf(objects, call, draws) ==
    IF call.op = "splitSecret"
    THEN CountDraws(splitSecretEffects(objects[call.bytes], call.threshold,
                                       call.totalShares))
    ELSE IF call.op = "createThresholdEncryption"
    THEN CountDraws(createThresholdEncryptionEffects(
                        objects[call.bytes], call.threshold, call.totalShares,
                        draws[1]))
    ELSE 0

InitEngine ==
    /\ EngineAtRest
    /\ pc = "engine"
    /\ secret = <<>>
    /\ threshold = 0
    /\ totalShares = 0
    /\ splitErr = "none"
    /\ shares = <<>>
    /\ coefficients = <<>>
    /\ evalPoints = <<>>
    /\ held = <<>>
    /\ tamperedAt = 0
    /\ op = "none"
    /\ expected = 0
    /\ combineErr = "none"
    /\ combined = <<>>
    /\ verdict = FALSE
    /\ combineCalls = 0
    /\ raised = "none"
    /\ encryptionKey = <<>>
    /\ created = <<>>
    /\ ciphertext = <<>>
    /\ decrypted = <<>>
    /\ decryptErr = "none"
    /\ effects = <<>>
    /\ FieldAtRest
    /\ RestAtRest
    /\ ProvisionAtRest

\* Task t calls an engine function.
Call(t) ==
    /\ tasks[t].phase = "idle"
    /\ \E call \in EngineCalls :
          tasks' = [tasks EXCEPT ![t] = [phase |-> "entered", call |-> call,
                                         took |-> <<>>, result |-> NoResult]]
    /\ UNCHANGED <<frames, rngPos, moduleScope, heap, callerVars>>
    /\ UNCHANGED fieldVars
    /\ UNCHANGED restVars
    /\ UNCHANGED provVars

\* The call of task t ends with result r: its locals are dropped.
Ends(t, r) ==
    /\ tasks' = [tasks EXCEPT ![t].phase = "returned", ![t].result = r]
    /\ moduleScope' = AfterCall(moduleScope, frames[frameOf(t)])
    /\ frames' = [frames EXCEPT ![frameOf(t)] = <<>>]

\* One crypto.getRandomValues of the call of task t, into its locals.
Draws(t) ==
    /\ frames' = [frames EXCEPT
                     ![frameOf(t)] = Append(@, RngStream[rngPos])]
    /\ rngPos' = (rngPos % Len(RngStream)) + 1

\* splitSecret: the argument checks.
SplitSecretChecks(t) ==
    /\ tasks[t].phase = "entered"
    /\ tasks[t].call.op = "splitSecret"
    /\ LET call == tasks[t].call
           err == splitSecretValidate(heap[call.bytes], call.threshold,
                                      call.totalShares)
       IN  IF err # "none"
           THEN Ends(t, ResultOf(heap, call, <<>>))
           ELSE /\ tasks' = [tasks EXCEPT ![t].phase = "drawing"]
                /\ UNCHANGED <<frames, moduleScope>>
    /\ UNCHANGED <<rngPos, heap, callerVars>>
    /\ UNCHANGED fieldVars
    /\ UNCHANGED restVars
    /\ UNCHANGED provVars

\* createThresholdEncryption: the draw of the key (the XOR loop reads only
\* the key and the secret).
CreateDrawsKey(t) ==
    /\ tasks[t].phase = "entered"
    /\ tasks[t].call.op = "createThresholdEncryption"
    /\ Draws(t)
    /\ tasks' = [tasks EXCEPT ![t].phase = "keyed",
                              ![t].took = Append(@, RngStream[rngPos])]
    /\ UNCHANGED <<moduleScope, heap, callerVars>>
    /\ UNCHANGED fieldVars
    /\ UNCHANGED restVars
    /\ UNCHANGED provVars

\* createThresholdEncryption: the argument checks of its splitSecret call.
CreateChecks(t) ==
    /\ tasks[t].phase = "keyed"
    /\ LET call == tasks[t].call
           err == splitSecretValidate(frames[frameOf(t)][1], call.threshold,
                                      call.totalShares)
       IN  IF err # "none"
           THEN Ends(t, ResultOf(heap, call, frames[frameOf(t)]))
           ELSE /\ tasks' = [tasks EXCEPT ![t].phase = "drawing"]
                /\ UNCHANGED <<frames, moduleScope>>
    /\ UNCHANGED <<rngPos, heap, callerVars>>
    /\ UNCHANGED fieldVars
    /\ UNCHANGED restVars
    /\ UNCHANGED provVars

\* Length of the locals of the call when its coefficients are all drawn.
DrawsNeeded(call) ==
    IF call.op = "splitSecret" THEN call.threshold - 1 ELSE call.threshold

\* generateCoefficients: one iteration of its loop.
DrawCoefficient(t) ==
    /\ tasks[t].phase = "drawing"
    /\ Len(frames[frameOf(t)]) < DrawsNeeded(tasks[t].call)
    /\ Draws(t)
    /\ tasks' = [tasks EXCEPT ![t].took = Append(@, RngStream[rngPos])]
    /\ UNCHANGED <<moduleScope, heap, callerVars>>
    /\ UNCHANGED fieldVars
    /\ UNCHANGED restVars
    /\ UNCHANGED provVars

\* splitSecret / createThresholdEncryption: the shares are computed from
\* the locals and the call returns.
SplitReturns(t) ==
    /\ tasks[t].phase = "drawing"
    /\ Len(frames[frameOf(t)]) >= DrawsNeeded(tasks[t].call)
    /\ Ends(t, ResultOf(heap, tasks[t].call, frames[frameOf(t)]))
    /\ UNCHANGED <<rngPos, heap, callerVars>>
    /\ UNCHANGED fieldVars
    /\ UNCHANGED restVars
    /\ UNCHANGED provVars

\* combineShares, verifyShares, decryptWithThreshold: no draw; the call
\* reads its arguments and returns or throws.
Computes(t) ==
    /\ tasks[t].phase = "entered"
    /\ tasks[t].call.op \in {"combineShares", "verifyShares",
                              "decryptWithThreshold"}
    /\ Ends(t, ResultOf(heap, tasks[t].call, <<>>))
    /\ UNCHANGED <<rngPos, heap, callerVars>>
    /\ UNCHANGED fieldVars
    /\ UNCHANGED restVars
    /\ UNCHANGED provVars

\* The caller of task t has taken the result; the task can call again.
Resumes(t) ==
    /\ tasks[t].phase = "returned"
    /\ tasks' = [tasks EXCEPT ![t] = IdleTask]
    /\ UNCHANGED <<frames, rngPos, moduleScope, heap, callerVars>>
    /\ UNCHANGED fieldVars
    /\ UNCHANGED restVars
    /\ UNCHANGED provVars

NextEngine ==
    \E t \in Tasks :
        \/ Call(t)
        \/ SplitSecretChecks(t)
        \/ CreateDrawsKey(t)
        \/ CreateChecks(t)
        \/ DrawCoefficient(t)
        \/ SplitReturns(t)
        \/ Computes(t)
        \/ Resumes(t)

SpecEngine == InitEngine /\ [][NextEngine]_vars

\* C19: nothing is retained.  Once a call has returned or thrown, no state
\* of the engine holds its coefficients, its secret or its key; after any
\* sequence of operations the module scope is the constant PRIME alone,
\* unmodified.
C19_NothingRetained ==
    /\ moduleScope = [PRIME |-> PRIME]
    /\ \A t \in Tasks :
          tasks[t].phase \in {"idle", "entered", "returned"}
              => frames[t] = <<>>

\* A split that drew two coefficients has returned while another call is
\* in progress.
C19_Witness ==
    /\ tasks[1].phase = "returned"
    /\ tasks[1].call.op = "splitSecret"
    /\ tasks[1].result.err = "none"
    /\ Len(tasks[1].took) = 2
    /\ tasks[2].phase = "drawing"
    /\ frames[1] = <<>>
    /\ moduleScope = [PRIME |-> PRIME]

\* C20: concurrency independence.  Under every interleaving, each call
\* returns what it returns alone on the same arguments with the same random
\* bytes, the byte arrays and share lists passed in are not modified, and
\* the locals of a call hold nothing but its own draws.
C20_CallsIndependent ==
    /\ heap = InputObjects
    /\ \A t \in Tasks :
          /\ frames[t] = IF tasks[t].phase \in {"keyed", "drawing"}
                          THEN tasks[t].took ELSE <<>>
          /\ tasks[t].phase = "returned" =>
                /\ tasks[t].result =
                       ResultOf(InputObjects, tasks[t].call, tasks[t].took)
                /\ Len(tasks[t].took) =
                       DrawsOf(InputObjects, tasks[t].call, tasks[t].took)

\* Two calls whose draws alternated have both returned.
C20_Witness ==
    /\ tasks[1].phase = "returned"
    /\ tasks[2].phase = "returned"
    /\ tasks[1].call.op = "splitSecret"
    /\ tasks[2].call.op = "createThresholdEncryption"
    /\ tasks[1].result.err = "none"
    /\ tasks[2].result.err = "none"
    /\ tasks[1].took = <<RngStream[1], RngStream[3]>>
    /\ tasks[2].took = <<RngStream[2], RngStream[1]>>

--------------------------------------------------------------------------
\* The field functions on their own (SpecField): modInverse and
\* evaluatePolynomial applied to arguments drawn from the field.

\* Integers a coefficient can be: the values of a byte string of full width.
CoefficientValues == 0 .. (Pow(BYTE_RADIX, FIELD_BYTES) - 1)

CoefficientLists ==
    UNION {[1 .. n -> CoefficientValues] : n \in 0 .. MaxThreshold}

FieldCalls ==
    {[fn |-> "modInverse", a |-> a, coefs |-> <<>>, x |-> 0] :
        a \in 0 .. (PRIME - 1)}
    \cup {[fn |-> "evaluatePolynomial", a |-> 0, coefs |-> c, x |-> x] :
             c \in CoefficientLists, x \in 0 .. (PRIME - 1)}

\* The single caller has made no call.
CallerAtRest ==
    /\ secret = <<>>
    /\ threshold = 0
    /\ totalShares = 0
    /\ splitErr = "none"
    /\ shares = <<>>
    /\ coefficients = <<>>
    /\ evalPoints = <<>>
    /\ held = <<>>
    /\ tamperedAt = 0
    /\ op = "none"
    /\ expected = 0
    /\ combineErr = "none"
    /\ combined = <<>>
    /\ verdict = FALSE
    /\ combineCalls = 0
    /\ raised = "none"
    /\ encryptionKey = <<>>
    /\ created = <<>>
    /\ ciphertext = <<>>
    /\ decrypted = <<>>
    /\ decryptErr = "none"
    /\ effects = <<>>

InitField ==
    /\ pc = "field"
    /\ fieldCall \in FieldCalls
    /\ fieldResult = 0
    /\ CallerAtRest
    /\ EngineAtRest
    /\ RestAtRest
    /\ ProvisionAtRest

\* modInverse(a, PRIME)
ModInverse ==
    /\ pc = "field"
    /\ fieldCall.fn = "modInverse"
    /\ fieldResult' = modInverse(fieldCall.a, PRIME)
    /\ pc' = "done"
    /\ UNCHANGED <<fieldCall, secret, threshold, totalShares, splitErr,
                   shares, coefficients, evalPoints, held, tamperedAt, op,
                   expected, combineErr, combined, verdict, combineCalls,
                   raised, effects>>
    /\ UNCHANGED <<cipherVars, engineVars>>
    /\ UNCHANGED restVars
    /\ UNCHANGED provVars

\* evaluatePolynomial(coefficients, x)
EvaluatePolynomial ==
    /\ pc = "field"
    /\ fieldCall.fn = "evaluatePolynomial"
    /\ fieldResult' = evaluatePolynomial(fieldCall.coefs, fieldCall.x)
    /\ pc' = "done"
    /\ UNCHANGED <<fieldCall, secret, threshold, totalShares, splitErr,
                   shares, coefficients, evalPoints, held, tamperedAt, op,
                   expected, combineErr, combined, verdict, combineCalls,
                   raised, effects>>
    /\ UNCHANGED <<cipherVars, engineVars>>
    /\ UNCHANGED restVars
    /\ UNCHANGED provVars

NextField ==
    \/ ModInverse
    \/ EvaluatePolynomial

SpecField == InitField /\ [][NextField]_vars

\* C23: for every a with 1 <= a < p, modInverse(a, p) terminates and
\* returns r in [0, p) with (a * r) mod p = 1, also when the coefficient of
\* the extended Euclid loop is negative before it is normalised.
C23_ModInverseInverts ==
    (pc = "done" /\ fieldCall.fn = "modInverse"
        /\ fieldCall.a >= 1 /\ fieldCall.a < PRIME)
        => /\ fieldResult \in 0 .. (PRIME - 1)
           /\ (fieldCall.a * fieldResult) % PRIME = 1

\* An inverse was returned for an a whose Euclid coefficient is negative.
C23_Witness ==
    /\ pc = "done"
    /\ fieldCall.fn = "modInverse"
    /\ fieldCall.a >= 1
    /\ EuclidLoop(fieldCall.a, PRIME, 1, 0) < 0
    /\ (fieldCall.a * fieldResult) % PRIME = 1

\* The sum of coefs[i] * x^i over the integers, i counted from 0.
RECURSIVE PolySum(_, _, _)
PolySum(coefs, x, k) ==
    IF k > Len(coefs) THEN 0
    ELSE coefs[k] * Pow(x, k - 1) + PolySum(coefs, x, k + 1)

\* C26: evaluatePolynomial(coeffs, x) returns (sum of coeffs[i] * x^i) mod
\* p for every coefficient list and every x in [0, p); the result is in
\* [0, p).
C26_EvaluatesPolynomial ==
    (pc = "done" /\ fieldCall.fn = "evaluatePolynomial")
        => /\ fieldResult = PolySum(fieldCall.coefs, fieldCall.x, 1) % PRIME
           /\ fieldResult \in 0 .. (PRIME - 1)

\* A polynomial with an unreduced constant term and a non-zero highest
\* coefficient was evaluated at an x above 1.
C26_Witness ==
    /\ pc = "done"
    /\ fieldCall.fn = "evaluatePolynomial"
    /\ Len(fieldCall.coefs) = MaxThreshold
    /\ fieldCall.coefs[1] >= PRIME
    /\ fieldCall.coefs[MaxThreshold] # 0
    /\ fieldCall.x > 1
    /\ fieldResult = PolySum(fieldCall.coefs, fieldCall.x, 1) % PRIME

\* Every share value a split emits encodes an integer below PRIME.
ShareValuesBelowPrime ==
    \A k \in 1 .. Len(shares) : bytesToBigInt(shares[k].value) < PRIME

\* C25: in every successful splitSecret(secret, M, N) the polynomial has
\* exactly M coefficients, coefficient[0] is the integer value of the
\* secret, and every coefficient, coefficient[0] included, is a reduced
\* field element in [0, p), for every secret of full width.
C25_CoefficientsReduced ==
    (pc \in {"split", "done"} /\ splitErr = "none")
        => /\ Len(coefficients) = threshold
           /\ coefficients[1] = bytesToBigInt(secret)
           /\ \A i \in 1 .. Len(coefficients) :
                 coefficients[i] \in 0 .. (PRIME - 1)

\* What holds of the coefficients of a successful split: M of them, the
\* first the unreduced integer value of the secret, the drawn ones reduced.
CoefficientsDrawnReduced ==
    (pc \in {"split", "done"} /\ splitErr = "none")
        => /\ Len(coefficients) = threshold
           /\ coefficients[1] = bytesToBigInt(secret)
           /\ \A i \in 2 .. Len(coefficients) :
                 coefficients[i] \in 0 .. (PRIME - 1)

--------------------------------------------------------------------------
\* Well-formed share lists (SpecPoints): pairwise distinct indices in
\* 1 .. MAX_SHARES, values encoding field elements.

\* Sequences of n distinct share indices.
DistinctIndices(n) ==
    {xs \in [1 .. n -> 1 .. MAX_SHARES] :
        \A i, j \in 1 .. n : i # j => xs[i] # xs[j]}

Monotone(xs) ==
    \/ \A i \in 1 .. (Len(xs) - 1) : xs[i] < xs[i + 1]
    \/ \A i \in 1 .. (Len(xs) - 1) : xs[i] > xs[i + 1]

\* The index sequences of the lists: every order for 2 and 3 shares, the
\* increasing and the decreasing ones for 4 shares.
IndexSequences ==
    DistinctIndices(MIN_COMBINE) \cup DistinctIndices(MIN_COMBINE + 1)
        \cup {xs \in DistinctIndices(MIN_COMBINE + 2) : Monotone(xs)}

FieldElements == 0 .. (PRIME - 1)

\* The list with indices xs and values encoding ys.
PointList(xs, ys) ==
    [i \in 1 .. Len(xs) |-> [index |-> xs[i], value |-> bigIntToBytes(ys[i])]]

InitPoints ==
    /\ pc = "held"
    /\ \E xs \in IndexSequences :
          \E ys \in [1 .. Len(xs) -> FieldElements] :
              held = PointList(xs, ys)
    /\ secret = <<>>
    /\ threshold = 0
    /\ totalShares = 0
    /\ splitErr = "none"
    /\ shares = <<>>
    /\ coefficients = <<>>
    /\ evalPoints = <<>>
    /\ tamperedAt = 0
    /\ op = "none"
    /\ expected = 0
    /\ combineErr = "none"
    /\ combined = <<>>
    /\ verdict = FALSE
    /\ combineCalls = 0
    /\ raised = "none"
    /\ encryptionKey = <<>>
    /\ created = <<>>
    /\ ciphertext = <<>>
    /\ decrypted = <<>>
    /\ decryptErr = "none"
    /\ effects = <<>>
    /\ EngineAtRest
    /\ FieldAtRest
    /\ RestAtRest
    /\ ProvisionAtRest

NextPoints ==
    \/ VerifyHeld
    \/ CombineHeld

SpecPoints == InitPoints /\ [][NextPoints]_vars

\* Polynomials of degree below n over the field, as coefficient lists.
Polys(n) == [1 .. n -> FieldElements]

\* The values of the polynomial c at the points xs, over the integers and
\* reduced.
ValuesOf(c, xs) == [i \in 1 .. Len(xs) |-> PolySum(c, xs[i], 1) % PRIME]

\* For each index sequence xs, every polynomial of degree below Len(xs) as
\* the pair <<its values at xs, its value at 0>>.
PolysAt ==
    [xs \in IndexSequences |->
        {<<ValuesOf(c, xs), c[1]>> : c \in Polys(Len(xs))}] @@ <<>>

HeldXs == [i \in 1 .. Len(held) |-> held[i].index]

HeldYs == [i \in 1 .. Len(held) |-> bytesToBigInt(held[i].value)]

\* C24: for k >= 2 shares with pairwise distinct indices in [1,255] and
\* values in [0,p), combineShares returns the big-endian encoding of P(0),
\* P the unique polynomial of degree <= k-1 through the k points; the
\* result is in [0,p).
C24_CombineIsPolynomialAtZero ==
    (pc = "done" /\ op = "combine")
        => LET atZero == {v \in FieldElements :
                             <<HeldYs, v>> \in PolysAt[HeldXs]}
           IN  /\ combineErr = "none"
               /\ atZero = {bytesToBigInt(combined)}
               /\ Len(combined) = FIELD_BYTES
               /\ bytesToBigInt(combined) < PRIME

\* Three shares in an order that is neither increasing nor decreasing, on
\* a polynomial of degree 2, were combined to a non-zero value.
C24_Witness ==
    /\ pc = "done"
    /\ op = "combine"
    /\ Len(held) = 3
    /\ held[1].index > held[2].index
    /\ held[2].index < held[3].index
    /\ \E v \in FieldElements \ {0} : <<HeldYs, v>> \in PolysAt[HeldXs]
    /\ bytesToBigInt(combined) # 0

\* For each sequence xs of M+1 indices, the value lists at xs of the
\* polynomials of degree below M.
DegreeBelow ==
    [xs \in {s \in IndexSequences : Len(s) > MIN_COMBINE} |->
        {ValuesOf(c, xs) : c \in Polys(Len(xs) - 1)}] @@ <<>>

\* C27: for shares with pairwise distinct indices in [1,255] and values in
\* [0,p), when more than M shares are supplied (M >= 2), verifyShares(shares,
\* M) returns true if and only if the first M+1 shares lie on one polynomial
\* of degree <= M-1.
C27_VerifyIffOnePolynomial ==
    (pc = "done" /\ op = "verify" /\ expected >= MIN_THRESHOLD
        /\ Len(held) > expected)
        => (verdict <=>
              (Slice(HeldYs, 0, expected + 1)
                  \in DegreeBelow[Slice(HeldXs, 0, expected + 1)]))

\* Four shares on one polynomial of degree 2 with a non-zero leading
\* coefficient were verified against 3.
C27_Witness ==
    /\ pc = "done"
    /\ op = "verify"
    /\ expected = MIN_THRESHOLD + 1
    /\ Len(held) = expected + 1
    /\ verdict = TRUE
    /\ \E c \in Polys(expected) : c[expected] # 0 /\ ValuesOf(c, HeldXs) = HeldYs

--------------------------------------------------------------------------
\* Shares beyond the first M+1

\* C28: verifyShares(shares, M) depends only on the first M+1 shares:
\* altering or appending shares at positions M+2 and later never changes
\* its result, so verifyShares(shares, M) = verifyShares(first M+1 shares,
\* M) whenever shares.length > M.
C28_VerifyReadsFirstShares ==
    (pc = "done" /\ op = "verify" /\ Len(held) > expected)
        => /\ verdict = verifyShares(Slice(held, 0, expected + 1), expected).ok
           /\ (tamperedAt > expected + 1)
                 => verdict = verifyShares(shares, expected).ok

\* With 5 shares and M = 3 the fifth share was altered and the list
\* verified like its first four shares.
C28_Witness ==
    /\ pc = "done"
    /\ op = "verify"
    /\ expected = MIN_THRESHOLD + 1
    /\ Len(held) = expected + 2
    /\ tamperedAt = Len(held)
    /\ held[tamperedAt] # shares[tamperedAt]
    /\ verdict = verifyShares(Slice(shares, 0, expected + 1), expected).ok

--------------------------------------------------------------------------
\* Malformed index sets and the order of the shares

\* The denominators lagrangeInterpolate computes for the held list.
HeldDenominators ==
    {DenominatorLoop(sharePoints(held), i, 1, 1) : i \in 1 .. Len(held)}

\* C29: combineShares terminates and returns a value of full width without
\* raising for every list of at least 2 shares, also when two shares carry
\* the same index or a share has index 0: modInverse of a denominator
\* congruent to 0 yields 0 and no failure.
C29_CombineNeverRaises ==
    (pc = "done" /\ op = "combine" /\ Len(held) >= MIN_COMBINE)
        => /\ combineErr = "none"
           /\ Len(combined) = FIELD_BYTES
           /\ effects = <<"field", "return">>
           /\ \A d \in HeldDenominators :
                 (d % PRIME = 0) => modInverse(d, PRIME) = 0

\* Three shares, two of them with the same index and one with index 0,
\* were combined.
C29_Witness ==
    /\ pc = "done"
    /\ op = "combine"
    /\ Len(held) = 3
    /\ held[1].index = held[3].index
    /\ held[2].index = 0
    /\ 0 \in HeldDenominators
    /\ combineErr = "none"
    /\ Len(combined) = FIELD_BYTES

\* The rearrangements of a list of n elements.
Rearrangements(n) ==
    {f \in [1 .. n -> 1 .. n] : \A i, j \in 1 .. n : i # j => f[i] # f[j]}

Rearranged(s, f) == [i \in 1 .. Len(s) |-> s[f[i]]]

\* C30: combineShares is independent of the order of its input: every
\* permutation of a list of at least 2 shares yields the same result, and
\* combineShares draws no randomness.
C30_CombineOrderIndependent ==
    (pc = "done" /\ op = "combine")
        => /\ \A f \in Rearrangements(Len(held)) :
                 /\ combineShares(Rearranged(held, f)).err = combineErr
                 /\ combineShares(Rearranged(held, f)).value = combined
           /\ CountDraws(effects) = 0

\* Three shares with three different indices and three different values
\* were combined to a non-zero value.
C30_Witness ==
    /\ pc = "done"
    /\ op = "combine"
    /\ Len(held) = 3
    /\ Cardinality({held[i].index : i \in 1 .. 3}) = 3
    /\ Cardinality({held[i].value : i \in 1 .. 3}) = 3
    /\ combineErr = "none"
    /\ bytesToBigInt(combined) # 0
--------------------------------------------------------------------------
\* REST add-on: the threshold routes (routes/threshold.ts), served through
\* thresholdService, whose split, combine and verify are splitSecret,
\* combineShares and verifyShares.

BadRequest(message) ==
    [NoResponse EXCEPT !.status = 400, !.error = message]

ServerError(message) ==
    [NoResponse EXCEPT !.status = 500, !.error = message]

\* Mutant: the decoded length of the secret is not checked.
splitRouteRejects_NoLengthCheck(body) ==
    IF Falsy(body.secret) \/ body.secret.type # "string"
    THEN "secret is required"
    ELSE IF body.threshold.type # "number" \/ body.threshold.n < 2
    THEN "threshold must be a number >= 2"
    ELSE IF \/ body.totalShares.type # "number"
            \/ body.totalShares.n < body.threshold.n
            \/ body.totalShares.n > MAX_SHARES
    THEN "totalShares must be a number >= threshold and <= 255"
    ELSE "none"

\* The checks of POST /v1/threshold/split, in the order of the code: the
\* message of the 400 answer, "none" when the request passes.
splitRouteRejects(body) ==
    IF Falsy(body.secret) \/ body.secret.type # "string"
    THEN "secret is required"
    ELSE IF body.threshold.type # "number" \/ body.threshold.n < 2
    THEN "threshold must be a number >= 2"
    ELSE IF \/ body.totalShares.type # "number"
            \/ body.totalShares.n < body.threshold.n
            \/ body.totalShares.n > MAX_SHARES
    THEN "totalShares must be a number >= threshold and <= 255"
    ELSE IF Len(base64Decode(body.secret.text)) # FIELD_BYTES
    THEN "secret must be exactly 32 bytes"
    ELSE "none"

\* The checks of POST /v1/threshold/combine.
combineRouteRejects(body) ==
    IF body.shares.type # "array" \/ Len(body.shares.items) < 2
    THEN "shares must be an array with at least 2 elements"
    ELSE "none"

\* The checks of POST /v1/threshold/verify, in the order of the code.
verifyRouteRejects(body) ==
    IF body.shares.type # "array" \/ Len(body.shares.items) < 2
    THEN "shares must be an array with at least 2 elements"
    ELSE IF body.threshold.type # "number" \/ body.threshold.n < 2
    THEN "threshold must be a number >= 2"
    ELSE "none"

\* shares.map(s => ({ index: s.index, value: Buffer.from(s.value, 'base64') }))
parsedShares(items) ==
    [k \in 1 .. Len(items) |->
        [index |-> items[k].index, value |-> base64Decode(items[k].value)]]

\* result.map(s => ({ index: s.index, value: ...toString('base64') }))
encodedShares(shs) ==
    [k \in 1 .. Len(shs) |->
        [index |-> shs[k].index, value |-> base64Encode(shs[k].value)]]

\* The request bodies: a field is missing, of the wrong type, or a value on
\* either side of each check.
SecretTexts ==
    UNION {[1 .. n -> {"0", "1", " "}] : n \in 0 .. (FIELD_BYTES + 1)}

SecretInputs ==
    {JsUndefined, JsNumber(7)} \cup {JsString(s) : s \in SecretTexts}

ThresholdInputs ==
    {JsUndefined, JsString(<<"1">>)}
        \cup {JsNumber(k) : k \in 0 .. MaxThreshold}

TotalSharesInputs ==
    {JsUndefined, JsString(<<"1">>)}
        \cup {JsNumber(k) : k \in 0 .. (MAX_SHARES + 1)}

ShareTexts == [1 .. FIELD_BYTES -> {"0", "1"}] \cup {<<"1", " ", "1", "0">>}

ShareItems == [index : 1 .. 3, value : ShareTexts]

SharesInputs ==
    {JsUndefined, JsString(<<"1">>)}
        \cup {JsArray(a) : a \in UNION {[1 .. n -> ShareItems] : n \in 0 .. 3}}

InitRest ==
    /\ pc = "rest"
    /\ CallerAtRest
    /\ EngineAtRest
    /\ FieldAtRest
    /\ response = NoResponse
    /\ serviceCall = NoServiceCall
    /\ \/ \E s \in SecretInputs, t \in ThresholdInputs,
             n \in TotalSharesInputs :
             request = [NoRequest EXCEPT !.route = "split", !.secret = s,
                                         !.threshold = t, !.totalShares = n]
       \/ \E a \in SharesInputs :
             request = [NoRequest EXCEPT !.route = "combine", !.shares = a]
       \/ \E a \in SharesInputs, t \in ThresholdInputs :
             request = [NoRequest EXCEPT !.route = "verify", !.shares = a,
                                         !.threshold = t]
    /\ ProvisionAtRest

\* router.post('/v1/threshold/split', ...)
PostSplit ==
    /\ request.route = "split"
    /\ response = NoResponse
    /\ IF splitRouteRejects(request) # "none"
       THEN /\ response' = BadRequest(splitRouteRejects(request))
            /\ UNCHANGED serviceCall
       ELSE LET secretBytes == base64Decode(request.secret.text)
                thr == request.threshold.n
                total == request.totalShares.n
                err == splitSecretValidate(secretBytes, thr, total)
            IN  /\ serviceCall' = [NoServiceCall EXCEPT
                                      !.fn = "split", !.secret = secretBytes,
                                      !.threshold = thr, !.totalShares = total]
                /\ IF err # "none"
                   THEN response' = ServerError(err)
                   ELSE \E randomBytes \in RandomDraws(thr) :
                           response' =
                             [NoResponse EXCEPT
                                !.status = 200, !.success = TRUE,
                                !.shares = encodedShares(splitSecretShares(
                                    generateCoefficients(
                                        bytesToBigInt(secretBytes), thr - 1,
                                        randomBytes), total))]
    /\ UNCHANGED request
    /\ UNCHANGED <<callerVars, engineVars, fieldVars, provVars>>

\* router.post('/v1/threshold/combine', ...)
PostCombine ==
    /\ request.route = "combine"
    /\ response = NoResponse
    /\ IF combineRouteRejects(request) # "none"
       THEN /\ response' = BadRequest(combineRouteRejects(request))
            /\ UNCHANGED serviceCall
       ELSE LET shs == parsedShares(request.shares.items)
                r == combineShares(shs)
            IN  /\ serviceCall' = [NoServiceCall EXCEPT
                                      !.fn = "combine", !.shares = shs]
                /\ response' =
                     IF r.err # "none" THEN ServerError(r.err)
                     ELSE [NoResponse EXCEPT
                              !.status = 200, !.success = TRUE,
                              !.secret = base64Encode(r.value)]
    /\ UNCHANGED request
    /\ UNCHANGED <<callerVars, engineVars, fieldVars, provVars>>

\* router.post('/v1/threshold/verify', ...)
PostVerify ==
    /\ request.route = "verify"
    /\ response = NoResponse
    /\ IF verifyRouteRejects(request) # "none"
       THEN /\ response' = BadRequest(verifyRouteRejects(request))
            /\ UNCHANGED serviceCall
       ELSE LET shs == parsedShares(request.shares.items)
                thr == request.threshold.n
                r == verifyShares(shs, thr)
            IN  /\ serviceCall' = [NoServiceCall EXCEPT
                                      !.fn = "verify", !.shares = shs,
                                      !.threshold = thr]
                /\ response' =
                     IF r.raised # "none" THEN ServerError(r.raised)
                     ELSE [NoResponse EXCEPT
                              !.status = 200, !.success = TRUE,
                              !.valid = r.ok,
                              !.sharesProvided = Len(request.shares.items),
                              !.threshold = thr]
    /\ UNCHANGED request
    /\ UNCHANGED <<callerVars, engineVars, fieldVars, provVars>>

NextRest == PostSplit \/ PostCombine \/ PostVerify

SpecRest == InitRest /\ [][NextRest]_vars

\* What the claim lists as required of each request.
SplitRequired ==
    /\ request.secret.type = "string"
    /\ Len(base64Decode(request.secret.text)) = FIELD_BYTES
    /\ request.threshold.type = "number"
    /\ request.totalShares.type = "number"
    /\ 2 <= request.threshold.n
    /\ request.threshold.n <= request.totalShares.n
    /\ request.totalShares.n <= MAX_SHARES

CombineRequired ==
    /\ request.shares.type = "array"
    /\ Len(request.shares.items) >= 2

VerifyRequired ==
    /\ request.shares.type = "array"
    /\ Len(request.shares.items) >= 2
    /\ request.threshold.type = "number"
    /\ request.threshold.n >= 2

Required ==
    \/ request.route = "split" /\ SplitRequired
    \/ request.route = "combine" /\ CombineRequired
    \/ request.route = "verify" /\ VerifyRequired

\* C21: a threshold route answers 400, without calling the engine, exactly
\* when its request lacks what the route requires (split: a base64 secret of
\* FIELD_BYTES bytes and 2 <= threshold <= totalShares <= MAX_SHARES;
\* combine: an array of at least 2 shares; verify: at least 2 shares and
\* threshold >= 2); every call it makes passes the engine's own checks and is
\* answered 200; a verify request with fewer shares than its threshold is
\* answered 200 with valid = false.
C21_RoutesValidateFirst ==
    response # NoResponse
        => /\ response.status = 400 <=> ~Required
           /\ response.status = 400 <=> serviceCall = NoServiceCall
           /\ response.status = 400 => response.error # "none"
           /\ serviceCall.fn = "split"
                 => splitSecretValidate(serviceCall.secret,
                        serviceCall.threshold, serviceCall.totalShares)
                        = "none"
           /\ serviceCall.fn = "combine"
                 => combineSharesValidate(serviceCall.shares) = "none"
           /\ serviceCall # NoServiceCall
                 => response.status = 200 /\ response.success
           /\ (/\ request.route = "verify"
               /\ VerifyRequired
               /\ Len(request.shares.items) < request.threshold.n)
                 => response.status = 200 /\ ~response.valid

\* A verify request with 2 shares and threshold 3 was answered 200.
C21_Witness ==
    /\ request.route = "verify"
    /\ request.shares.type = "array"
    /\ Len(request.shares.items) = 2
    /\ request.threshold.type = "number"
    /\ request.threshold.n = 3
    /\ response.status = 200
    /\ ~response.valid
    /\ serviceCall.fn = "verify"
--------------------------------------------------------------------------
\* REST add-on: the provisioning routes (routes/provision.ts) over the table
\* instances, for the requests basicAuth lets through.  The handlers and the
\* statements of better-sqlite3 are synchronous: each request is one step.

\* The rows the table may ever be given (the cap on its AUTOINCREMENT id).
MaxInserts == 2

\* SELECT * FROM instances WHERE endpoint_id = ?
rowsOfEndpoint(table, endpointId) ==
    {row \in table : row.endpoint_id = endpointId}

\* Mutant: the lookup compares the quicknode_id column.
getInstanceByEndpointId_ByQuicknodeId(table, endpointId) ==
    {row \in table : row.quicknode_id = endpointId}

\* getInstanceByEndpointId: .get() yields the first row found, here as a set
\* that holds it, empty for undefined.
getInstanceByEndpointId(table, endpointId) ==
    LET found == rowsOfEndpoint(table, endpointId)
    IN  {row \in found : \A other \in found : row.id <= other.id}

\* data.chain || null
OrNull(value) == IF value = Missing THEN Null ELSE value

\* data.plan ?? existing.plan
OrExisting(value, existing) == IF value = Missing THEN existing ELSE value

\* createInstance: [error, table]; endpoint_id is UNIQUE, so the INSERT
\* throws when the table has a row of this endpoint_id.
createInstance(table, id, data) ==
    IF rowsOfEndpoint(table, data.endpointId) # {}
    THEN [error |-> "UNIQUE constraint failed: instances.endpoint_id",
          table |-> table]
    ELSE [error |-> "none",
          table |-> table \cup
              {[id |-> id, quicknode_id |-> data.quicknodeId,
                endpoint_id |-> data.endpointId, plan |-> data.plan,
                chain |-> OrNull(data.chain), active |-> 1]}]

\* updateInstance: [updated, table]; the UPDATE writes every row of the
\* endpoint_id from the data, absent fields from the row the lookup found.
updateInstance(table, endpointId, data) ==
    LET existing == getInstanceByEndpointId(table, endpointId)
    IN  IF existing = {} THEN [updated |-> FALSE, table |-> table]
        ELSE LET e == CHOOSE row \in existing : TRUE
             IN  [updated |-> TRUE,
                  table |->
                    {IF row.endpoint_id = endpointId
                     THEN [row EXCEPT
                             !.plan = OrExisting(data.plan, e.plan),
                             !.chain = OrExisting(data.chain, e.chain),
                             !.active = 1]
                     ELSE row : row \in table}]

\* deactivateInstance: [changes, table]
deactivateInstance(table, endpointId) ==
    [changes |-> Cardinality(rowsOfEndpoint(table, endpointId)),
     table |-> {IF row.endpoint_id = endpointId
                THEN [row EXCEPT !.active = 0] ELSE row : row \in table}]

\* deprovisionByQuicknodeId: DELETE FROM instances WHERE quicknode_id = ?
deprovisionByQuicknodeId(table, quicknodeId) ==
    {row \in table : row.quicknode_id # quicknodeId}

ProvSuccess == [status |-> 200, message |-> "success"]

ProvError(code, text) == [status |-> code, message |-> text]

\* The bodies of the requests: every field present or missing.
QuicknodeIds == {"qn-1", "qn-2"}

EndpointIds == {"ep-1", "ep-2"}

Plans == {"starter", "pro"}

Chains == {"solana"}

InitProvision ==
    /\ pc = "provision"
    /\ CallerAtRest
    /\ EngineAtRest
    /\ FieldAtRest
    /\ RestAtRest
    /\ ProvisionAtRest

\* router.post('/provision', basicAuth, ...)
PostProvision ==
    \E q \in QuicknodeIds \cup {Missing}, e \in EndpointIds \cup {Missing},
       p \in Plans \cup {Missing}, c \in Chains \cup {Missing} :
       LET body == [route |-> "provision", quicknodeId |-> q,
                    endpointId |-> e, plan |-> p, chain |-> c]
       IN  /\ provRequest' = body
           /\ IF q = Missing \/ e = Missing \/ p = Missing
              THEN /\ provResponse' =
                         ProvError(400, "Missing required fields")
                   /\ UNCHANGED <<instances, nextId>>
              ELSE IF getInstanceByEndpointId(instances, e) # {}
              THEN /\ instances' = updateInstance(instances, e, body).table
                   /\ provResponse' = ProvSuccess
                   /\ UNCHANGED nextId
              ELSE LET r == createInstance(instances, nextId, body)
                   IN  /\ nextId <= MaxInserts
                       /\ instances' = r.table
                       /\ IF r.error # "none"
                          THEN /\ provResponse' = ProvError(500, r.error)
                               /\ UNCHANGED nextId
                          ELSE /\ provResponse' = ProvSuccess
                               /\ nextId' = nextId + 1
    /\ UNCHANGED <<callerVars, engineVars, fieldVars, restVars>>

\* router.put('/update', basicAuth, ...)
PutUpdate ==
    \E e \in EndpointIds \cup {Missing}, p \in Plans \cup {Missing},
       c \in Chains \cup {Missing} :
       LET body == [NoProvRequest EXCEPT !.route = "update",
                       !.endpointId = e, !.plan = p, !.chain = c]
           r == updateInstance(instances, e, body)
       IN  /\ provRequest' = body
           /\ IF e = Missing
              THEN /\ provResponse' =
                         ProvError(400, "Missing required field")
                   /\ UNCHANGED instances
              ELSE /\ instances' = r.table
                   /\ provResponse' =
                         IF r.updated THEN ProvSuccess
                         ELSE ProvError(404, "Instance not found")
    /\ UNCHANGED nextId
    /\ UNCHANGED <<callerVars, engineVars, fieldVars, restVars>>

\* router.delete('/deactivate_endpoint', basicAuth, ...)
DeleteDeactivateEndpoint ==
    \E e \in EndpointIds \cup {Missing} :
       LET r == deactivateInstance(instances, e)
       IN  /\ provRequest' = [NoProvRequest EXCEPT
                                 !.route = "deactivate_endpoint",
                                 !.endpointId = e]
           /\ IF e = Missing
              THEN /\ provResponse' =
                         ProvError(400, "Missing required field")
                   /\ UNCHANGED instances
              ELSE /\ instances' = r.table
                   /\ provResponse' =
                         IF r.changes > 0 THEN ProvSuccess
                         ELSE ProvError(404, "Instance not found")
    /\ UNCHANGED nextId
    /\ UNCHANGED <<callerVars, engineVars, fieldVars, restVars>>

\* router.delete('/deprovision', basicAuth, ...)
DeleteDeprovision ==
    \E q \in QuicknodeIds \cup {Missing} :
       /\ provRequest' = [NoProvRequest EXCEPT !.route = "deprovision",
                                               !.quicknodeId = q]
       /\ IF q = Missing
          THEN /\ provResponse' = ProvError(400, "Missing required field")
               /\ UNCHANGED instances
          ELSE /\ instances' = deprovisionByQuicknodeId(instances, q)
               /\ provResponse' = ProvSuccess
    /\ UNCHANGED nextId
    /\ UNCHANGED <<callerVars, engineVars, fieldVars, restVars>>

NextProvision ==
    PostProvision \/ PutUpdate \/ DeleteDeactivateEndpoint
        \/ DeleteDeprovision

SpecProvision == InitProvision /\ [][NextProvision]_vars

\* No two rows of the table have the same endpoint_id.
AtMostOnePerEndpoint ==
    \A r1, r2 \in instances : r1.endpoint_id = r2.endpoint_id => r1 = r2

\* The step handled a complete POST /provision for an endpoint-id that had a
\* row.
ProvisionOfExisting ==
    /\ provRequest'.route = "provision"
    /\ provRequest'.quicknodeId # Missing
    /\ provRequest'.endpointId # Missing
    /\ provRequest'.plan # Missing
    /\ rowsOfEndpoint(instances, provRequest'.endpointId) # {}

\* The row of the endpoint-id keeps its id and quicknode_id, takes the plan
\* (and the chain, when given) of the request and is active; every other row
\* is as it was, and no row is added.
ExistingUpdated ==
    /\ provResponse' = ProvSuccess
    /\ Cardinality(instances') = Cardinality(instances)
    /\ \A old \in instances :
          IF old.endpoint_id = provRequest'.endpointId
          THEN [old EXCEPT
                  !.plan = provRequest'.plan,
                  !.chain = OrExisting(provRequest'.chain, old.chain),
                  !.active = 1] \in instances'
          ELSE old \in instances'

\* C22: provisioning is idempotent: a complete POST /provision for an
\* endpoint-id that has a row answers success and updates that row instead of
\* being rejected, and after any sequence of provision, update,
\* deactivate_endpoint and deprovision requests the table has at most one row
\* per endpoint-id.
C22_ProvisionIdempotent ==
    /\ [] AtMostOnePerEndpoint
    /\ [][ProvisionOfExisting => ExistingUpdated]_vars

\* An endpoint deactivated after its provisioning was provisioned again, by
\* another quicknode-id and with another plan: its row, still of the first
\* quicknode-id, is active and of the new plan, next to a row of the other
\* endpoint.
C22_Witness ==
    /\ provRequest.route = "provision"
    /\ provResponse = ProvSuccess
    /\ Cardinality(instances) = 2
    /\ \E row \in instances :
          /\ row.endpoint_id = provRequest.endpointId
          /\ row.quicknode_id # provRequest.quicknodeId
          /\ row.plan = provRequest.plan
          /\ row.active = 1
          /\ row.id = 1
    /\ nextId = 3

====
